---------------------------- MODULE Spec2Model ----------------------------
(***************************************************************************)
(* The connection core of the LDAP client: the dispatcher goroutine        *)
(* (processMessages), the reader goroutine, the sendProcessMessage         *)
(* goroutines, the delivery goroutines and the callers of the operations.  *)
(* conn.go holds two variants of the connection: the one that guards       *)
(* shutdown with closeLock ("rwlock", lines 1-360) and the one that guards *)
(* it with the connected flag and chanProcessLock ("flag", lines 362-719). *)
(* The variable variant selects the code that runs.                        *)
(***************************************************************************)
EXTENDS Integers, Sequences, FiniteSets, Bags, TLC

\* ------------------------------------------------------------- bounds
NumOps == 2
MaxClose == 1
MaxFrames == 2
MaxCookies == 1
MaxPageFrames == 4
MaxPagingSize == 2
MaxPattern == 5
MaxValue == 5
MaxCookieLen == 2
MaxControlValue == 2
MaxAttributes == 2
MaxAttrValues == 1
\* The largest paging size tried (PagingSize is a uint32).
LargePagingSize == 2147483647

\* ------------------------------------------------- program constants
MessageQuit == 0
MessageRequest == 1
MessageResponse == 2
MessageFinish == 3

FilterAnd == 0
FilterOr == 1
FilterNot == 2
FilterEqualityMatch == 3
FilterSubstrings == 4
FilterGreaterOrEqual == 5
FilterLessOrEqual == 6
FilterPresent == 7
FilterApproxMatch == 8
FilterExtensibleMatch == 9

LDAPResultCompareFalse == 5
LDAPResultCompareTrue == 6

FilterSubstringsInitial == 0
FilterSubstringsAny == 1
FilterSubstringsFinal == 2

Variants == {"rwlock", "flag"}
Ops == 1..NumOps
OpKinds == {"search", "reqresp"}
FrameKinds == {"Entry", "Done"}
\* The responses to a compare request, by their result.
CompareResponses == {"Done", "CompareFalse", "CompareTrue"}

VARIABLES
    variant,            \* which conn.go runs
    conn,               \* l.conn, the socket: "open" | "closed"
    connected,          \* l.connected (flag variant)
    chanMessageID,      \* l.chanMessageID: "open" | "closed" | "nil"
    chanProcessMessage, \* l.chanProcessMessage: "open" | "nil"
    chanResults,        \* l.chanResults: message ID -> result channel
    chanClosed,         \* the result channels that have been closed
    message_id,         \* processMessages' local message_id
    dpc,                \* where processMessages is
    rpc,                \* where reader is
    procs,              \* bag of sendProcessMessage goroutines
    deliv,              \* the delivery goroutines: [ch, id, kind, seq]
    written,            \* requests written to the socket: [id, kind]
    srvDone,            \* message IDs the server has answered with Done
    nframes,            \* frames the reader has decoded so far
    closeCalls,         \* calls of Close made by the user so far
    closeWait,          \* user calls of Close waiting in closeLock.Lock()
    pc,                 \* per caller: where its operation is
    kind,               \* per caller: the operation it runs
    mid,                \* per caller: its messageID
    got,                \* per caller: the frames it received, in order
    res,                \* per caller: what the operation returned
    panicked,           \* a goroutine panicked: the program is gone
    mark,               \* history: what first ended the connection, and the
                        \* callers that were waiting for a response then
    target,             \* per caller: abandonMessageID of the Abandon it called
    aid,                \* per caller: the messageID of its Abandon
    ret,                \* per caller: where its Abandon was called from
    stopped,            \* per caller: its handler has set stopProcessing
    AbandonMessageOnReadTimeout, \* l.AbandonMessageOnReadTimeout
    PagingControl,      \* per caller: SearchWithPaging's PagingControl
    requests,           \* per caller: the paging controls of the search
                        \* requests its SearchWithPaging has issued
    frames,             \* the frames of paged searches the server has sent
    stubCookies,        \* how many non-empty cookies the server returns
    filter,             \* the filter string given to CompileFilter
    packet,             \* what CompileFilter returned
    decompiled,         \* what DecompileFilter returned for it
    fpc,                \* how far the round trip of the filter is
    ctl,                \* the Control that is encoded
    cpacket,            \* the packet DecodeControl is given
    cbytes,             \* the bytes of the control's encoding
    cresult,            \* the Control DecodeControl returned
    reencoded,          \* the bytes of that Control's encoding
    cpc,                \* how far the round trip of the control is
    addReq,             \* per caller: the attributes of its AddRequest, each
                        \* the sequence of its values
    code                \* per caller: the ResultCode of the *Error returned

vars == <<variant, conn, connected, chanMessageID, chanProcessMessage,
          chanResults, chanClosed, message_id, dpc, rpc, procs, deliv,
          written, srvDone, nframes, closeCalls, closeWait,
          pc, kind, mid, got, res, panicked, mark,
          target, aid, ret, stopped, AbandonMessageOnReadTimeout,
          PagingControl, requests, frames, stubCookies,
          filter, packet, decompiled, fpc,
          ctl, cpacket, cbytes, cresult, reencoded, cpc, addReq, code>>

connVars == <<conn, connected, chanMessageID, chanProcessMessage>>
tableVars == <<chanResults, chanClosed>>
srvVars == <<written, srvDone, nframes>>
closeVars == <<closeCalls, closeWait>>
callerVars == <<pc, kind, mid, got, res>>
abandonVars == <<target, aid, ret>>
pagingVars == <<PagingControl, requests, frames, stubCookies>>
filterVars == <<filter, packet, decompiled, fpc>>
ctlVars == <<ctl, cpacket, cbytes, cresult, reencoded, cpc>>
pureVars == <<filterVars, ctlVars>>
opVars == <<addReq, code>>
extVars == <<abandonVars, stopped, AbandonMessageOnReadTimeout, pagingVars, pureVars, opVars>>
ldapVars == <<variant, connVars, tableVars, message_id, dpc, rpc, procs, deliv,
              srvVars, closeVars, callerVars, mark, abandonVars, stopped,
              AbandonMessageOnReadTimeout, pagingVars, opVars>>

\* ------------------------------------------------------------ messages
NoCh == 0

Msg(op, id, ch, k, seq) == [op |-> op, id |-> id, ch |-> ch, kind |-> k, seq |-> seq]
QuitMsg == Msg(MessageQuit, 0, NoCh, "none", 0)
RequestMsg(id, ch, k) == Msg(MessageRequest, id, ch, k, 0)
ResponseMsg(id, k, seq) == Msg(MessageResponse, id, NoCh, k, seq)
FinishMsg(id) == Msg(MessageFinish, id, NoCh, "none", 0)

Proc(m, st) == [m |-> m, st |-> st]
Spawn(m) == procs (+) SetToBag({Proc(m, "new")})
Drop(p) == procs (-) SetToBag({p})
Held == {p \in BagToSet(procs) : p.st = "held"}

\* ------------------------------------------------------- the RW lock
\* closeLock (rwlock variant) and chanProcessLock (flag variant): the
\* sendProcessMessage goroutines are its readers; the writers are
\* closeAllChannels and Close (rwlock), processMessages' exits (flag).
closeAllSteps == {"ca_results", "ca_nil"}
WriterHolds == variant = "rwlock" /\ dpc \in closeAllSteps
WriterWaits == dpc = "lock" \/ closeWait > 0 \/ (variant = "rwlock" /\ rpc = "closelock")
CanRLock == ~WriterHolds /\ ~WriterWaits
CanLock == ~WriterHolds /\ Held = {}

InitAt(d, r, on, ev, flags, ks, fs, cs) ==
    /\ variant \in Variants
    /\ AbandonMessageOnReadTimeout \in flags
    /\ conn = "open"
    /\ connected = on
    /\ chanMessageID = "open"
    /\ chanProcessMessage = "open"
    /\ chanResults = << >>
    /\ chanClosed = {}
    /\ message_id = 1
    /\ dpc = d
    /\ rpc = r
    /\ procs = EmptyBag
    /\ deliv = {}
    /\ written = {}
    /\ srvDone = {}
    /\ nframes = 0
    /\ closeCalls = 0
    /\ closeWait = 0
    /\ pc = [c \in Ops |-> "idle"]
    /\ kind = [c \in Ops |-> "search"]
    /\ mid = [c \in Ops |-> 0]
    /\ got = [c \in Ops |-> << >>]
    /\ res = [c \in Ops |-> "none"]
    /\ panicked = FALSE
    /\ mark = [ev |-> ev, who |-> {}]
    /\ target = [c \in Ops |-> 0]
    /\ aid = [c \in Ops |-> 0]
    /\ ret = [c \in Ops |-> "none"]
    /\ stopped = [c \in Ops |-> FALSE]
    /\ PagingControl = [c \in Ops |-> [nil |-> TRUE, PagingSize |-> 0, Cookie |-> 0]]
    /\ requests = [c \in Ops |-> << >>]
    /\ frames = << >>
    /\ stubCookies \in ks
    /\ filter \in fs
    /\ packet = [class |-> "none", tag |-> 0, data |-> << >>, children |-> << >>]
    /\ decompiled = [err |-> FALSE, str |-> << >>]
    /\ fpc = "input"
    /\ ctl \in cs
    /\ cpacket = [tag |-> "none", constructed |-> FALSE,
                  value |-> [kind |-> "nil", str |-> << >>, num |-> 0, bool |-> FALSE],
                  data |-> << >>, children |-> << >>]
    /\ cbytes = << >>
    /\ cresult = [type |-> "none", ControlType |-> << >>, Criticality |-> FALSE,
                  ControlValue |-> << >>, PagingSize |-> 0, Cookie |-> << >>]
    /\ reencoded = << >>
    /\ cpc = "input"
    /\ addReq = [c \in Ops |-> << >>]
    /\ code = [c \in Ops |-> 0]

\* After Connect's l.start(): reader and processMessages run.
InitOf(ev, flags, ks, fs, cs) == InitAt("select", "read", TRUE, ev, flags, ks, fs, cs)

\* No control is encoded.
NoControls ==
    {[type |-> "none", ControlType |-> << >>, Criticality |-> FALSE,
      ControlValue |-> << >>, PagingSize |-> 0, Cookie |-> << >>]}

\* The connection as NewLDAPConnection leaves it and after Connect:
\* AbandonMessageOnReadTimeout is false.
InitWith(ev) == InitOf(ev, {FALSE}, {0}, {<< >>}, NoControls)

\* No history is kept.
Init == InitWith("off")

\* The same, with the history of what ends the connection.
InitMarked == InitWith("none")


\* The first event that ends the connection is recorded with the callers
\* waiting for a response at that moment.
Waiting == {c \in Ops : pc[c] = "wait"}
Mark(ev) == IF mark.ev = "none" THEN [ev |-> ev, who |-> Waiting] ELSE mark

\* ------------------------------------------------- the correlation table
Register(table, id, ch) ==
    [i \in DOMAIN table \cup {id} |-> IF i = id THEN ch ELSE table[i]]

Unregister(table, id) ==
    [i \in DOMAIN table \ {id} |-> table[i]]

Channels(table) == {table[i] : i \in DOMAIN table}

\* Delivery with the channel looked up wrongly: every registered channel
\* gets the frame.
DeliveryToAll(table, m) ==
    {[ch |-> table[i], id |-> m.id, kind |-> m.kind, seq |-> m.seq] : i \in DOMAIN table}

\* The delivery goroutines processMessages starts for a response m.
Delivery(table, m) ==
    IF m.id \in DOMAIN table
    THEN {[ch |-> table[m.id], id |-> m.id, kind |-> m.kind, seq |-> m.seq]}
    ELSE {}

\* message_id left as it is.
NextIDSame(m) == m

\* message_id++
NextID(m) == m + 1

\* ------------------------------------------------------------ callers
\* A caller starts an operation: Search, or an operation built on
\* sendReqRespPacket (Compare). The operation calls nextMessageID, which
\* evaluates l.chanMessageID and blocks in the receive: forever when the
\* channel is nil. Callers are alike, so they start in their numbers' order.
nextMessageID(c, k) ==
    /\ ~panicked
    /\ pc[c] = "idle"
    /\ \A b \in Ops : b < c => pc[b] # "idle"
    /\ pc' = [pc EXCEPT ![c] = IF chanMessageID = "nil" THEN "nilrecv" ELSE "recvid"]
    /\ kind' = [kind EXCEPT ![c] = k]
    /\ UNCHANGED <<extVars, variant, connVars, tableVars, message_id, dpc, rpc, procs,
                   deliv, srvVars, closeVars, mid, got, res, panicked, mark>>

\* processMessages' case l.chanMessageID <- message_id, received by caller c.
handOut(c) ==
    /\ ~panicked
    /\ dpc = "select"
    /\ chanMessageID = "open"
    /\ pc[c] = "recvid"
    /\ mid' = [mid EXCEPT ![c] = message_id]
    /\ message_id' = NextID(message_id)
    /\ pc' = [pc EXCEPT ![c] = "send"]
    /\ UNCHANGED <<extVars, variant, connVars, tableVars, dpc, rpc, procs, deliv,
                   srvVars, closeVars, kind, got, res, panicked, mark>>

\* The receive on a closed l.chanMessageID: (0, false) in the flag variant,
\* and the operation returns ErrorClosing; 0 in the rwlock variant, and the
\* operation goes on with message ID 0.
nextMessageIDClosed(c) ==
    /\ ~panicked
    /\ pc[c] = "recvid"
    /\ chanMessageID # "open"
    /\ IF variant = "flag"
       THEN /\ pc' = [pc EXCEPT ![c] = "done"]
            /\ res' = [res EXCEPT ![c] = "closing"]
            /\ mid' = mid
       ELSE /\ pc' = [pc EXCEPT ![c] = "send"]
            /\ mid' = [mid EXCEPT ![c] = 0]
            /\ res' = res
    /\ UNCHANGED <<extVars, variant, connVars, tableVars, message_id, dpc, rpc, procs,
                   deliv, srvVars, closeVars, kind, got, panicked, mark>>

\* chanResultsLock taken without waiting for its holder.
CanLockResultsAlways(d) == TRUE

\* l.chanResultsLock.Lock() of sendMessage (flag variant) with
\* processMessages at d: closeAllChannels holds the lock while it runs.
CanLockResults(d) == d \notin closeAllSteps

\* sendMessage. flag: under chanResultsLock (held by closeAllChannels while it
\* runs) the entry is registered, then the request goes to the dispatcher.
\* rwlock: an error when l.chanProcessMessage is nil, else the request goes to
\* the dispatcher, which registers the entry.
sendMessage(c) ==
    /\ ~panicked
    /\ pc[c] = "send"
    /\ IF variant = "flag"
       THEN /\ CanLockResults(dpc)
            /\ chanResults' = Register(chanResults, mid[c], c)
            /\ procs' = Spawn(RequestMsg(mid[c], c, kind[c]))
            /\ pc' = [pc EXCEPT ![c] = "wait"]
            /\ res' = res
       ELSE IF chanProcessMessage = "nil"
            THEN /\ pc' = [pc EXCEPT ![c] = "done"]
                 /\ res' = [res EXCEPT ![c] = "network"]
                 /\ UNCHANGED <<chanResults, procs>>
            ELSE /\ procs' = Spawn(RequestMsg(mid[c], c, kind[c]))
                 /\ pc' = [pc EXCEPT ![c] = "wait"]
                 /\ UNCHANGED <<chanResults, res>>
    /\ UNCHANGED <<extVars, variant, connVars, chanClosed, message_id, dpc, rpc, deliv,
                   srvVars, closeVars, kind, mid, got, panicked, mark>>

\* The deferred l.finishMessage(messageID) of a returning operation.
finishMessage(id) == Spawn(FinishMsg(id))

\* Whether the frame ends the caller's wait loop.
LastFrame(k, f) == k \in {"reqresp", "compare", "starttls"} \/ f = "Done"

\* Every response read as success.
getLDAPResultCodeSuccess(f) == 0

\* getLDAPResultCode(packet): the result code of the response.
getLDAPResultCode(f) ==
    CASE f = "CompareFalse" -> LDAPResultCompareFalse
      [] f = "CompareTrue" -> LDAPResultCompareTrue
      [] OTHER -> 0

\* What the operation returns for the result code of its response: nil
\* for 0 and NewError(result_code, ...) otherwise; the Compare of
\* compare.go returns NewError(result_code, ...) for every code, the one
\* built on sendReqRespPacket nil for 0.
Returned(v, k, rc) ==
    IF rc # 0 \/ (k = "compare" /\ v = "rwlock") THEN "error" ELSE "ok"

\* packet = <-channel, from delivery goroutine d; after the last frame the
\* operation returns and its deferred finishMessage runs.
receive(c, d) ==
    /\ ~panicked
    /\ pc[c] = "wait"
    /\ d \in deliv
    /\ d.ch = c
    /\ c \notin chanClosed
    /\ deliv' = deliv \ {d}
    /\ got' = [got EXCEPT ![c] = Append(@, [id |-> d.id, kind |-> d.kind, seq |-> d.seq])]
    /\ IF LastFrame(kind[c], d.kind)
       THEN /\ pc' = [pc EXCEPT ![c] = "done"]
            /\ res' = [res EXCEPT ![c] = Returned(variant, kind[c], getLDAPResultCode(d.kind))]
            /\ code' = [code EXCEPT ![c] = getLDAPResultCode(d.kind)]
            /\ procs' = finishMessage(mid[c])
       ELSE UNCHANGED <<pc, res, code, procs>>
    /\ UNCHANGED <<abandonVars, stopped, AbandonMessageOnReadTimeout, pagingVars, pureVars,
                   addReq, variant, connVars, tableVars, message_id, dpc, rpc,
                   srvVars, closeVars, kind, mid, panicked, mark>>

\* packet = <-channel on a closed channel: nil, a network error; the
\* operation returns and its deferred finishMessage runs.
receiveClosed(c) ==
    /\ ~panicked
    /\ pc[c] = "wait"
    /\ c \in chanClosed
    /\ pc' = [pc EXCEPT ![c] = "done"]
    /\ res' = [res EXCEPT ![c] = "network"]
    /\ procs' = finishMessage(mid[c])
    /\ UNCHANGED <<extVars, variant, connVars, tableVars, message_id, dpc, rpc,
                   deliv, srvVars, closeVars, kind, mid, got, panicked, mark>>

\* case <-time.After(l.ReadTimeout) of sendReqRespPacket, the connection
\* having l.ReadTimeout > 0 (Search does not use it). With
\* l.AbandonMessageOnReadTimeout the caller first calls l.Abandon(messageID);
\* without it the timeout error is returned and the deferred finishMessage
\* runs.
timeout(c) ==
    /\ ~panicked
    /\ pc[c] = "wait"
    /\ kind[c] = "reqresp"
    /\ IF AbandonMessageOnReadTimeout
       THEN /\ pc' = [pc EXCEPT ![c] = IF chanMessageID = "nil" THEN "a_nilrecv" ELSE "a_recvid"]
            /\ target' = [target EXCEPT ![c] = mid[c]]
            /\ ret' = [ret EXCEPT ![c] = "timeout"]
            /\ UNCHANGED <<res, procs>>
       ELSE /\ pc' = [pc EXCEPT ![c] = "done"]
            /\ res' = [res EXCEPT ![c] = "timeout"]
            /\ procs' = finishMessage(mid[c])
            /\ UNCHANGED <<target, ret>>
    /\ UNCHANGED <<variant, connVars, tableVars, message_id, dpc, rpc,
                   deliv, srvVars, closeVars, kind, mid, got, panicked, mark,
                   aid, stopped, AbandonMessageOnReadTimeout, pagingVars, pureVars, opVars>>

\* ------------------------------------------- sendProcessMessage goroutines
\* What the goroutine checks under the read lock before it sends.
MaySend == IF variant = "flag" THEN connected ELSE chanProcessMessage # "nil"

\* RLock, then the check: the goroutine goes on to block in
\* l.chanProcessMessage <- message holding the read lock, or unlocks and ends.
sendProcessMessage(p) ==
    /\ ~panicked
    /\ p \in BagToSet(procs)
    /\ p.st = "new"
    /\ CanRLock
    /\ procs' = IF MaySend
                THEN Drop(p) (+) SetToBag({Proc(p.m, "held")})
                ELSE Drop(p)
    /\ UNCHANGED <<extVars, variant, connVars, tableVars, message_id, dpc, rpc, deliv,
                   srvVars, closeVars, callerVars, panicked, mark>>

\* ------------------------------------------------------ processMessages
\* case message_packet = <-l.chanProcessMessage, sent by goroutine p, which
\* then unlocks and ends.
Receives(p, op) ==
    /\ ~panicked
    /\ dpc = "select"
    /\ p \in Held
    /\ p.m.op = op
    /\ procs' = Drop(p)

\* case MessageQuit: processMessages returns.
processQuit(p) ==
    /\ Receives(p, MessageQuit)
    /\ dpc' = "quit"
    /\ UNCHANGED <<extVars, variant, connVars, tableVars, message_id, rpc, deliv,
                   srvVars, closeVars, callerVars, panicked, mark>>

\* case MessageRequest: (rwlock: the entry is registered,) the request is
\* written to the socket; processMessages returns when the write fails.
processRequest(p, ok) ==
    /\ Receives(p, MessageRequest)
    /\ chanResults' = IF variant = "rwlock"
                      THEN Register(chanResults, p.m.id, p.m.ch)
                      ELSE chanResults
    /\ IF ok /\ conn = "open"
       THEN /\ written' = written \cup {[id |-> p.m.id, kind |-> p.m.kind]}
            /\ dpc' = dpc
            /\ mark' = mark
       ELSE /\ written' = written
            /\ dpc' = "quit"
            /\ mark' = Mark("write")
    /\ UNCHANGED <<extVars, variant, connVars, chanClosed, message_id, rpc, deliv,
                   srvDone, nframes, closeVars, callerVars, panicked>>

\* A response for an unknown message ID ends processMessages.
UnknownIsFatal(table, m) == IF m.id \in DOMAIN table THEN "select" ELSE "quit"

\* Where processMessages goes after case MessageResponse: back to the select,
\* whether the message ID is registered or not.
AfterResponse(table, m) == "select"

\* case MessageResponse: a delivery goroutine for the registered channel, or
\* the message is logged and dropped.
processResponse(p) ==
    /\ Receives(p, MessageResponse)
    /\ deliv' = deliv \cup Delivery(chanResults, p.m)
    /\ dpc' = AfterResponse(chanResults, p.m)
    /\ UNCHANGED <<extVars, variant, connVars, tableVars, message_id, rpc,
                   srvVars, closeVars, callerVars, panicked, mark>>

\* case MessageFinish: delete(l.chanResults, MessageID).
processFinish(p) ==
    /\ Receives(p, MessageFinish)
    /\ chanResults' = Unregister(chanResults, p.m.id)
    /\ UNCHANGED <<extVars, variant, connVars, chanClosed, message_id, dpc, rpc, deliv,
                   srvVars, closeVars, callerVars, panicked, mark>>

\* processMessages has left its loop and calls Lock(): chanProcessLock.Lock()
\* in the flag variant, closeAllChannels' closeLock.Lock() in the rwlock one.
processLock ==
    /\ ~panicked
    /\ dpc = "quit"
    /\ dpc' = "lock"
    /\ UNCHANGED <<extVars, variant, connVars, tableVars, message_id, rpc, procs, deliv,
                   srvVars, closeVars, callerVars, panicked, mark>>

\* The lock is taken. flag: l.connected = false, l.conn.Close(), Unlock, and
\* closeAllChannels begins; rwlock: closeAllChannels goes on holding the lock.
processLocked ==
    /\ ~panicked
    /\ dpc = "lock"
    /\ CanLock
    /\ dpc' = "ca_results"
    /\ IF variant = "flag"
       THEN /\ connected' = FALSE
            /\ conn' = "closed"
       ELSE UNCHANGED <<connected, conn>>
    /\ UNCHANGED <<extVars, variant, chanMessageID, chanProcessMessage, tableVars,
                   message_id, rpc, procs, deliv, srvVars, closeVars,
                   callerVars, panicked, mark>>

\* ------------------------------------------------------ closeAllChannels
\* The loop over l.chanResults (close, delete), then close(l.chanMessageID).
\* A send blocked on a channel panics when the channel is closed.
closeResults ==
    /\ ~panicked
    /\ dpc = "ca_results"
    /\ chanClosed' = chanClosed \cup Channels(chanResults)
    /\ chanResults' = << >>
    /\ chanMessageID' = "closed"
    /\ panicked' = \E d \in deliv : d.ch \in Channels(chanResults)
    /\ dpc' = "ca_nil"
    /\ UNCHANGED <<extVars, variant, conn, connected, chanProcessMessage, message_id,
                   rpc, procs, deliv, srvVars, closeVars, callerVars, mark>>

\* l.chanMessageID = nil; close(l.chanProcessMessage);
\* l.chanProcessMessage = nil; the deferred Unlock.
closeChannels ==
    /\ ~panicked
    /\ dpc = "ca_nil"
    /\ chanMessageID' = "nil"
    /\ chanProcessMessage' = "nil"
    /\ panicked' = (Held # {})
    /\ dpc' = "done"
    /\ UNCHANGED <<extVars, variant, conn, connected, tableVars, message_id, rpc,
                   procs, deliv, srvVars, closeVars, callerVars, mark>>

\* ---------------------------------------------------------------- reader
\* The frames the server sends for a request it has read: entries and then
\* one Done for a search, nothing for an abandon request, one response for
\* the other operations.
ServerFrames(w) ==
    IF w.kind \in {"search", "callback"} THEN {"Entry", "Done"}
    ELSE IF w.kind \in {"abandon", "paging"} THEN {}
    ELSE IF w.kind = "compare" THEN CompareResponses
    ELSE {"Done"}

\* The reader returns and its deferred l.Close() runs. flag: the Quit message
\* goes to the dispatcher. rwlock: Close waits for closeLock.
ReaderReturns ==
    IF variant = "flag"
    THEN /\ procs' = Spawn(QuitMsg)
         /\ rpc' = "done"
    ELSE /\ procs' = procs
         /\ rpc' = "closelock"

\* ber.ReadPacket returns the next frame of the server; the reader hands it
\* to the dispatcher (rwlock: unless l.chanProcessMessage is nil).
readerFrame(w, k) ==
    /\ ~panicked
    /\ rpc = "read"
    /\ conn = "open"
    /\ nframes < MaxFrames
    /\ w \in written
    /\ w.id \notin srvDone
    /\ k \in ServerFrames(w)
    /\ nframes' = nframes + 1
    /\ srvDone' = IF k # "Entry" THEN srvDone \cup {w.id} ELSE srvDone
    /\ IF variant = "rwlock" /\ chanProcessMessage = "nil"
       THEN ReaderReturns
       ELSE /\ rpc' = rpc
            /\ procs' = Spawn(ResponseMsg(w.id, k, nframes + 1))
    /\ UNCHANGED <<extVars, variant, connVars, tableVars, message_id, dpc, deliv,
                   written, closeVars, callerVars, panicked, mark>>

\* ber.ReadPacket returns an error: the socket was closed, or (failed) the
\* network failed or the frame does not decode. The reader returns.
readerError(failed) ==
    /\ ~panicked
    /\ rpc = "read"
    /\ failed \/ conn = "closed"
    /\ ReaderReturns
    /\ mark' = Mark("read")
    /\ UNCHANGED <<extVars, variant, connVars, tableVars, message_id, dpc, deliv,
                   srvVars, closeVars, callerVars, panicked>>

\* rwlock: the reader's Close has closeLock.
readerCloseLocked ==
    /\ ~panicked
    /\ rpc = "closelock"
    /\ CanLock
    /\ procs' = Spawn(QuitMsg)
    /\ conn' = "closed"
    /\ rpc' = "done"
    /\ UNCHANGED <<extVars, variant, connected, chanMessageID, chanProcessMessage,
                   tableVars, message_id, dpc, deliv, srvVars, closeVars,
                   callerVars, panicked, mark>>

\* ----------------------------------------------------------------- Close
\* The user calls Close. flag: the Quit message goes to the dispatcher.
\* rwlock: Close waits for closeLock.
Close ==
    /\ ~panicked
    /\ closeCalls < MaxClose
    /\ closeCalls' = closeCalls + 1
    /\ mark' = Mark("close")
    /\ IF variant = "flag"
       THEN /\ procs' = Spawn(QuitMsg)
            /\ closeWait' = closeWait
       ELSE /\ procs' = procs
            /\ closeWait' = closeWait + 1
    /\ UNCHANGED <<extVars, variant, connVars, tableVars, message_id, dpc, rpc, deliv,
                   srvVars, callerVars, panicked>>

\* rwlock: Close has closeLock: the Quit message goes to the dispatcher, the
\* socket is closed, the lock is released.
CloseLocked ==
    /\ ~panicked
    /\ closeWait > 0
    /\ CanLock
    /\ closeWait' = closeWait - 1
    /\ procs' = Spawn(QuitMsg)
    /\ conn' = "closed"
    /\ UNCHANGED <<extVars, variant, connected, chanMessageID, chanProcessMessage,
                   tableVars, message_id, dpc, rpc, deliv, srvVars, closeCalls,
                   callerVars, panicked, mark>>

\* --------------------------------------------------------------- Abandon
\* The message IDs Abandon is called for: of operations pending or finished,
\* and one never issued.
AbandonTargets == 1..(NumOps + 1)

\* The result channel sendMessage makes for the Abandon of caller c.
AbandonCh(c) == NumOps + c

\* Caller c calls Abandon(t) from `from`: as an operation of its own
\* ("user"), from sendReqRespPacket's timeout ("timeout"), or from the
\* handler of its search ("handler"). Abandon begins with nextMessageID.
AbandonCalled(c, t, from) ==
    /\ pc' = [pc EXCEPT ![c] = IF chanMessageID = "nil" THEN "a_nilrecv" ELSE "a_recvid"]
    /\ target' = [target EXCEPT ![c] = t]
    /\ ret' = [ret EXCEPT ![c] = from]

\* Abandon has returned err ("" for nil) to where it was called from. The
\* user gets err. sendReqRespPacket returns one of its two timeout errors
\* and its deferred finishMessage runs. The handler drops err and returns
\* with stopProcessing set.
AbandonReturned(c, err, spawned) ==
    CASE ret[c] = "user" ->
            /\ pc' = [pc EXCEPT ![c] = "done"]
            /\ res' = [res EXCEPT ![c] = IF err = "" THEN "ok" ELSE err]
            /\ procs' = spawned
      [] ret[c] = "timeout" ->
            /\ pc' = [pc EXCEPT ![c] = "done"]
            /\ res' = [res EXCEPT ![c] =
                          IF err = "" THEN "timeout" ELSE "timeout, error on Abandon"]
            /\ procs' = spawned (+) SetToBag({Proc(FinishMsg(mid[c]), "new")})
      [] ret[c] = "handler" ->
            /\ pc' = [pc EXCEPT ![c] = "check"]
            /\ res' = res
            /\ procs' = spawned

\* The user calls Abandon(t).
Abandon(c, t) ==
    /\ ~panicked
    /\ pc[c] = "idle"
    /\ \A b \in Ops : b < c => pc[b] # "idle"
    /\ kind' = [kind EXCEPT ![c] = "abandon"]
    /\ AbandonCalled(c, t, "user")
    /\ UNCHANGED <<variant, connVars, tableVars, message_id, dpc, rpc, procs,
                   deliv, srvVars, closeVars, mid, got, res, panicked, mark,
                   aid, stopped, AbandonMessageOnReadTimeout, pagingVars, pureVars, opVars>>

\* processMessages' case l.chanMessageID <- message_id, received by the
\* nextMessageID of caller c's Abandon.
abandonHandOut(c) ==
    /\ ~panicked
    /\ dpc = "select"
    /\ chanMessageID = "open"
    /\ pc[c] = "a_recvid"
    /\ aid' = [aid EXCEPT ![c] = message_id]
    /\ message_id' = NextID(message_id)
    /\ pc' = [pc EXCEPT ![c] = "a_send"]
    /\ UNCHANGED <<variant, connVars, tableVars, dpc, rpc, procs, deliv,
                   srvVars, closeVars, kind, mid, got, res, panicked, mark,
                   target, ret, stopped, AbandonMessageOnReadTimeout, pagingVars, pureVars, opVars>>

\* Abandon's nextMessageID on a closed l.chanMessageID: Abandon goes on with
\* message ID 0 (abandon.go, rwlock variant); in the flag variant the check
\* of ok returns ErrorClosing, as in the operations of that variant.
abandonIDClosed(c) ==
    /\ ~panicked
    /\ pc[c] = "a_recvid"
    /\ chanMessageID # "open"
    /\ IF variant = "flag"
       THEN /\ AbandonReturned(c, "closing", procs)
            /\ aid' = aid
       ELSE /\ pc' = [pc EXCEPT ![c] = "a_send"]
            /\ aid' = [aid EXCEPT ![c] = 0]
            /\ UNCHANGED <<res, procs>>
    /\ UNCHANGED <<variant, connVars, tableVars, message_id, dpc, rpc, deliv,
                   srvVars, closeVars, kind, mid, got, panicked, mark,
                   target, ret, stopped, AbandonMessageOnReadTimeout, pagingVars, pureVars, opVars>>

\* The goroutines Abandon starts: sendMessage's for the request and the
\* deferred finishMessage's.
AbandonSpawns(c) ==
    procs (+) SetToBag({Proc(RequestMsg(aid[c], AbandonCh(c), "abandon"), "new")})
          (+) SetToBag({Proc(FinishMsg(aid[c]), "new")})

\* Abandon's sendMessage, its deferred finishMessage and its return: it
\* waits for no response. An error of sendMessage is returned.
abandonSend(c) ==
    /\ ~panicked
    /\ pc[c] = "a_send"
    /\ IF variant = "flag"
       THEN /\ CanLockResults(dpc)
            /\ chanResults' = Register(chanResults, aid[c], AbandonCh(c))
            /\ AbandonReturned(c, "", AbandonSpawns(c))
       ELSE /\ chanResults' = chanResults
            /\ IF chanProcessMessage = "nil"
               THEN AbandonReturned(c, "network", procs)
               ELSE AbandonReturned(c, "", AbandonSpawns(c))
    /\ UNCHANGED <<variant, connVars, chanClosed, message_id, dpc, rpc, deliv,
                   srvVars, closeVars, kind, mid, got, panicked, mark,
                   aid, target, ret, stopped, AbandonMessageOnReadTimeout, pagingVars, pureVars, opVars>>

\* ------------------------------------------------------ SearchWithCallback
\* SearchWithCallback runs nextMessageID and sendMessage as Search does, and
\* calls the callback for every frame it receives. receive is the callback
\* leaving *stopProcessing false: the loop ends at SearchResultDone.
\* The loop ending at SearchResultDone only.
LoopEndsAtDone(f, stop) == f = "Done"

\* Whether the loop ends after the callback has returned.
LoopEnds(f, stop) == f = "Done" \/ stop

\* The loop, after the callback has returned for frame kind f: break, the
\* function returns and its deferred finishMessage runs; or the next
\* packet = <-channel.
callbackLoop(c, f, stop, spawned) ==
    IF LoopEnds(f, stop)
    THEN /\ pc' = [pc EXCEPT ![c] = "done"]
         /\ res' = [res EXCEPT ![c] = "ok"]
         /\ procs' = spawned (+) SetToBag({Proc(FinishMsg(mid[c]), "new")})
    ELSE /\ pc' = [pc EXCEPT ![c] = "wait"]
         /\ res' = res
         /\ procs' = spawned

\* The callback is called for an entry and sets *stopProcessing = true.
handlerStops(c, d) ==
    /\ ~panicked
    /\ pc[c] = "wait"
    /\ kind[c] = "callback"
    /\ d \in deliv
    /\ d.ch = c
    /\ d.kind = "Entry"
    /\ c \notin chanClosed
    /\ deliv' = deliv \ {d}
    /\ got' = [got EXCEPT ![c] = Append(@, [id |-> d.id, kind |-> d.kind, seq |-> d.seq])]
    /\ stopped' = [stopped EXCEPT ![c] = TRUE]
    /\ callbackLoop(c, d.kind, TRUE, procs)
    /\ UNCHANGED <<variant, connVars, tableVars, message_id, dpc, rpc,
                   srvVars, closeVars, kind, mid, panicked, mark,
                   abandonVars, AbandonMessageOnReadTimeout, pagingVars, pureVars, opVars>>

\* The callback is called for an entry and calls
\* partialSearchResult.Conn.Abandon(partialSearchResult.MessageID).
handlerAbandons(c, d) ==
    /\ ~panicked
    /\ pc[c] = "wait"
    /\ kind[c] = "callback"
    /\ d \in deliv
    /\ d.ch = c
    /\ d.kind = "Entry"
    /\ c \notin chanClosed
    /\ deliv' = deliv \ {d}
    /\ got' = [got EXCEPT ![c] = Append(@, [id |-> d.id, kind |-> d.kind, seq |-> d.seq])]
    /\ AbandonCalled(c, mid[c], "handler")
    /\ UNCHANGED <<variant, connVars, tableVars, message_id, dpc, rpc, procs,
                   srvVars, closeVars, kind, mid, res, panicked, mark,
                   aid, stopped, AbandonMessageOnReadTimeout, pagingVars, pureVars, opVars>>

\* Abandon has returned to the callback, which drops its error, sets
\* *stopProcessing = true and returns.
handlerReturns(c) ==
    /\ ~panicked
    /\ pc[c] = "check"
    /\ stopped' = [stopped EXCEPT ![c] = TRUE]
    /\ callbackLoop(c, "Entry", TRUE, procs)
    /\ UNCHANGED <<variant, connVars, tableVars, message_id, dpc, rpc, deliv,
                   srvVars, closeVars, kind, mid, got, panicked, mark,
                   abandonVars, AbandonMessageOnReadTimeout, pagingVars, pureVars, opVars>>

\* -------------------------------------------------------- SearchWithPaging
\* The nil *ControlPaging, NewControlPaging(PagingSize) and SetCookie:
\* cookie 0 is the empty cookie.
NilControl == [nil |-> TRUE, PagingSize |-> 0, Cookie |-> 0]
NewControlPaging(size) == [nil |-> FALSE, PagingSize |-> size, Cookie |-> 0]
SetCookie(control, cookie) == [control EXCEPT !.Cookie = cookie]

\* l.Search(SearchRequest) is called with the paging control as it is now:
\* Search begins with nextMessageID.
pagedSearch(c, control) ==
    /\ requests' = [requests EXCEPT ![c] = Append(@, control)]
    /\ pc' = [pc EXCEPT ![c] = IF chanMessageID = "nil" THEN "nilrecv" ELSE "recvid"]

\* The user calls SearchWithPaging(SearchRequest, size): the paging control
\* is appended to the request's controls and the first Search is called.
SearchWithPaging(c, size) ==
    /\ ~panicked
    /\ pc[c] = "idle"
    /\ \A b \in Ops : b < c => pc[b] # "idle"
    /\ kind' = [kind EXCEPT ![c] = "paging"]
    /\ PagingControl' = [PagingControl EXCEPT ![c] = NewControlPaging(size)]
    /\ pagedSearch(c, NewControlPaging(size))
    /\ UNCHANGED <<variant, connVars, tableVars, message_id, dpc, rpc, procs,
                   deliv, srvVars, closeVars, mid, got, res, panicked, mark,
                   abandonVars, stopped, AbandonMessageOnReadTimeout,
                   frames, stubCookies, pureVars, opVars>>

\* The entries SearchWithPaging has accumulated: the entries of the results
\* of its Searches, each the entries that Search received, in that order.
PagedEntries(c) == SelectSeq(got[c], LAMBDA f : f.kind = "Entry")

\* The cookie of the paging control of the result of the Search that has
\* just returned: that of the SearchResultDone it received.
ResultCookie(c) == frames[got[c][Len(got[c])].seq].cookie

\* A Search of SearchWithPaging has returned. An error is returned to the
\* user. An empty cookie: PagingControl = nil and break; the if after the
\* loop sends a last request with PagingSize 0 when PagingControl is not
\* nil; SearchWithPaging returns. Otherwise SetCookie and the next Search.
\* (The server here always attaches a paging control to SearchResultDone.)
pagingLoop(c) ==
    /\ ~panicked
    /\ pc[c] = "done"
    /\ kind[c] = "paging"
    /\ IF res[c] # "ok"
       THEN /\ pc' = [pc EXCEPT ![c] = "returned"]
            /\ UNCHANGED <<PagingControl, requests>>
       ELSE IF ResultCookie(c) = 0
       THEN LET afterBreak == NilControl IN
            /\ PagingControl' = [PagingControl EXCEPT ![c] = afterBreak]
            /\ IF ~afterBreak.nil
               THEN pagedSearch(c, [afterBreak EXCEPT !.PagingSize = 0])
               ELSE /\ pc' = [pc EXCEPT ![c] = "returned"]
                    /\ requests' = requests
       ELSE /\ PagingControl' = [PagingControl EXCEPT ![c] = SetCookie(@, ResultCookie(c))]
            /\ pagedSearch(c, SetCookie(PagingControl[c], ResultCookie(c)))
    /\ UNCHANGED <<variant, connVars, tableVars, message_id, dpc, rpc, procs,
                   deliv, srvVars, closeVars, kind, mid, got, res, panicked, mark,
                   abandonVars, stopped, AbandonMessageOnReadTimeout,
                   frames, stubCookies, pureVars, opVars>>

\* How many SearchResultDone frames of paged searches the server has sent.
PagesServed == Cardinality({i \in 1..Len(frames) : frames[i].kind = "Done"})

\* The server answers a paged search it has read: entries, then
\* SearchResultDone with the paging control, whose cookie is non-empty for
\* the first stubCookies pages and empty after them. It keeps frames in hand
\* for the SearchResultDone of every page. The reader hands the frame to
\* the dispatcher as it does every frame.
readerPage(w, k) ==
    /\ ~panicked
    /\ rpc = "read"
    /\ conn = "open"
    /\ w \in written
    /\ w.kind = "paging"
    /\ w.id \notin srvDone
    /\ Len(frames) < MaxPageFrames
    /\ k = "Entry" => Len(frames) + 1 + (stubCookies + 1 - PagesServed) <= MaxPageFrames
    /\ frames' = Append(frames,
                    [kind |-> k,
                     cookie |-> IF k = "Done" /\ PagesServed < stubCookies
                                THEN PagesServed + 1 ELSE 0])
    /\ nframes' = nframes + 1
    /\ srvDone' = IF k = "Done" THEN srvDone \cup {w.id} ELSE srvDone
    /\ IF variant = "rwlock" /\ chanProcessMessage = "nil"
       THEN ReaderReturns
       ELSE /\ rpc' = rpc
            /\ procs' = Spawn(ResponseMsg(w.id, k, nframes + 1))
    /\ UNCHANGED <<variant, connVars, tableVars, message_id, dpc, deliv,
                   written, closeVars, callerVars, panicked, mark,
                   abandonVars, stopped, AbandonMessageOnReadTimeout,
                   PagingControl, requests, stubCookies, pureVars, opVars>>

\* ---------------------------------------------------------------- filters
\* A filter string is the sequence of its characters. What the character
\* classes of the regular expressions contain, of the characters used here.
WhiteSpace == {" "}
AttrChars == {"a", "v"}
NotValueChars == {"(", ")"}

\* The character at position q, "" past the end.
At(s, q) == IF q \in 1..Len(s) THEN s[q] ELSE ""

\* The end of the longest run from pos of characters in the set: what a
\* greedy class* consumes.
Skip(s, pos, set) ==
    LET stops == {q \in pos..Len(s) : s[q] \notin set}
    IN  IF stops = {} THEN Len(s) + 1
        ELSE CHOOSE q \in stops : \A r \in stops : q <= r
\* The end of the longest match from pos of (\\.|[^\\...]+)*, the class
\* excluding the backslash and the characters of set: a backslash is
\* consumed only with the character after it.
RECURSIVE EscSkipTo(_, _, _)
EscSkipTo(s, pos, set) ==
    IF pos > Len(s) THEN pos
    ELSE IF s[pos] = "\\"
    THEN IF pos < Len(s) THEN EscSkipTo(s, pos + 2, set) ELSE pos
    ELSE IF s[pos] \in set THEN pos
    ELSE EscSkipTo(s, pos + 1, set)

\* opRegex, endRegex and itemRegex matched at pos: whether they match, where
\* the match ends, and the submatches.
opRegex(s, pos) ==
    LET q == Skip(s, pos + 1, WhiteSpace)
    IN  IF At(s, pos) = "(" /\ At(s, q) \in {"&", "!", "|"}
        THEN [ok |-> TRUE, end |-> Skip(s, q + 1, WhiteSpace), op |-> At(s, q)]
        ELSE [ok |-> FALSE, end |-> pos, op |-> ""]

endRegex(s, pos) ==
    IF At(s, pos) = ")"
    THEN [ok |-> TRUE, end |-> Skip(s, pos + 1, WhiteSpace)]
    ELSE [ok |-> FALSE, end |-> pos]

itemRegex(s, pos) ==
    LET a0 == Skip(s, pos + 1, WhiteSpace)
        a1 == Skip(s, a0, AttrChars)
        o0 == Skip(s, a1, WhiteSpace)
        o1 == IF At(s, o0) \in {":", "~", "<", ">"} THEN o0 + 1 ELSE o0
        v1 == EscSkipTo(s, o1 + 1, NotValueChars)
    IN  IF At(s, pos) = "(" /\ a1 > a0 /\ At(s, o1) = "=" /\ At(s, v1) = ")"
        THEN [ok |-> TRUE, end |-> Skip(s, v1 + 1, WhiteSpace),
              attr |-> SubSeq(s, a0, a1 - 1),
              op |-> SubSeq(s, o0, o1),
              val |-> SubSeq(s, o1 + 1, v1 - 1)]
        ELSE [ok |-> FALSE, end |-> pos, attr |-> << >>, op |-> << >>, val |-> << >>]

\* ber packets: class, tag, the string held, the children.
BerPacket(class, tag, data, children) ==
    [class |-> class, tag |-> tag, data |-> data, children |-> children]
NoPacket == BerPacket("none", 0, << >>, << >>)
OctetString(data) == BerPacket("universal", "OctetString", data, << >>)
AppendChild(p, child) == [p EXCEPT !.children = Append(@, child)]

\* What a compilation returns: an *Error or a packet.
Compiled(p) == [err |-> FALSE, packet |-> p]
CompileError == [err |-> TRUE, packet |-> NoPacket]

\* The map FilterComponent.
FilterComponent(op) ==
    CASE op = <<"&">> -> FilterAnd
      [] op = <<"|">> -> FilterOr
      [] op = <<"!">> -> FilterNot
      [] op = <<"=">> -> FilterEqualityMatch
      [] op = <<">", "=">> -> FilterGreaterOrEqual
      [] op = <<"<", "=">> -> FilterLessOrEqual
      [] op = <<"~", "=">> -> FilterApproxMatch

\* unescapedWildCardRegex: whether value has a "*" that is not escaped.
unescapedWildCardRegex(value) == At(value, EscSkipTo(value, 1, {"*"})) = "*"

\* wildCardSearchRegex with an empty first submatch.
wildCardSearchEmpty(value, pos) ==
    LET q == EscSkipTo(value, pos, {"*"})
    IN  IF At(value, q) = "*"
        THEN [ok |-> TRUE, end |-> q + 1, run |-> << >>]
        ELSE [ok |-> FALSE, end |-> pos, run |-> << >>]

\* wildCardSearchRegex on value from position pos: the longest run without
\* "*" and the "*" after it.
wildCardSearchRegex(value, pos) ==
    LET q == EscSkipTo(value, pos, {"*"})
    IN  IF At(value, q) = "*"
        THEN [ok |-> TRUE, end |-> q + 1, run |-> SubSeq(value, pos, q - 1)]
        ELSE [ok |-> FALSE, end |-> pos, run |-> << >>]

\* The loop of encodeSubStringMatch: pos is the position reached (1 is the
\* start of value), seq the children of "substrings" so far.
RECURSIVE subStringLoop(_, _, _)
subStringLoop(value, pos, seq) ==
    LET m == wildCardSearchRegex(value, pos)
        withInitial == IF pos = 1 /\ m.run # << >>
                       THEN Append(seq, BerPacket("context", FilterSubstringsInitial, m.run, << >>))
                       ELSE seq
        withAny == IF pos > 1 /\ m.run # << >>
                   THEN Append(withInitial, BerPacket("context", FilterSubstringsAny, m.run, << >>))
                   ELSE withInitial
        rest == SubSeq(value, pos, Len(value))
        final == IF rest # << >>
                 THEN Append(seq, BerPacket("context", FilterSubstringsFinal, rest, << >>))
                 ELSE seq
    IN  IF ~m.ok /\ pos = 1 THEN [err |-> TRUE, seq |-> << >>]
        ELSE IF ~m.ok THEN [err |-> FALSE, seq |-> final]
        ELSE IF m.end = Len(value) + 1 THEN [err |-> FALSE, seq |-> withAny]
        ELSE subStringLoop(value, m.end, withAny)

encodeSubStringMatch(attr, value) ==
    LET loop == subStringLoop(value, 1, << >>)
    IN  IF loop.err THEN CompileError
        ELSE Compiled(BerPacket("context", FilterSubstrings, << >>,
                 << OctetString(attr), BerPacket("universal", "Sequence", << >>, loop.seq) >>))

\* encodeExtensibleMatch, for an attribute with no rule and no ":dn".
encodeExtensibleMatch(attr, value) ==
    Compiled(BerPacket("context", FilterExtensibleMatch, << >>,
        (IF attr # << >> THEN << BerPacket("context", "type", attr, << >>) >> ELSE << >>)
            \o << BerPacket("context", "matchValue", value, << >>) >>))

\* encodeItem: the packet of (attr op val).
encodeItem(attr, op, val) ==
    IF op = <<":", "=">> THEN encodeExtensibleMatch(attr, val)
    ELSE IF op = <<"=">> /\ val = <<"*">>
    THEN Compiled(BerPacket("context", FilterPresent, attr, << >>))
    ELSE IF op = <<"=">> /\ unescapedWildCardRegex(val)
    THEN encodeSubStringMatch(attr, val)
    ELSE Compiled(BerPacket("context", FilterComponent(op), << >>,
                            << OctetString(attr), OctetString(val) >>))

\* parse: the loop over the filter from pos, with the stack p of packets.
RECURSIVE parseLoop(_, _, _, _)
parseLoop(s, pos, bracketCount, p) ==
    LET o == opRegex(s, pos)
        e == endRegex(s, pos)
        i == itemRegex(s, pos)
        item == encodeItem(i.attr, i.op, i.val)
        n == Len(p)
    IN  IF o.ok
        THEN parseLoop(s, o.end, bracketCount + 1,
                       Append(p, BerPacket("context", FilterComponent(<<o.op>>), << >>, << >>)))
        ELSE IF e.ok
        THEN IF bracketCount <= 0 THEN CompileError
             ELSE parseLoop(s, e.end, bracketCount - 1,
                            IF n > 1
                            THEN SubSeq([p EXCEPT ![n - 1] = AppendChild(@, p[n])], 1, n - 1)
                            ELSE p)
        ELSE IF i.ok
        THEN IF item.err THEN CompileError
             ELSE parseLoop(s, i.end, bracketCount,
                            IF n = 0 THEN << item.packet >>
                            ELSE [p EXCEPT ![n] = AppendChild(@, item.packet)])
        ELSE IF pos <= Len(s) THEN CompileError
        ELSE Compiled(p[1])

CompileFilter(s) ==
    IF Len(s) = 0 THEN CompileError
    ELSE IF s[1] # "(" THEN CompileError
    ELSE parseLoop(s, 1, 0, << >>)

\* What a decompilation returns: err, and ret as far as it was built.
Decompiled(err, text) == [err |-> err, str |-> text]

\* DecompileFilter. decompileChildren is the loop over packet.Children of
\* And and Or: it returns at the first child's error. An index out of range
\* panics, and the deferred recover sets err.
RECURSIVE DecompileFilter(_)
RECURSIVE decompileChildren(_, _, _)
decompileChildren(text, children, i) ==
    IF i > Len(children) THEN Decompiled(FALSE, text \o <<")">>)
    ELSE LET child == DecompileFilter(children[i])
         IN  IF child.err THEN Decompiled(TRUE, text)
             ELSE decompileChildren(text \o child.str, children, i + 1)

\* The text of the first child of "substrings".
FirstSubstring(sub) ==
    CASE sub.tag = FilterSubstringsInitial -> sub.data \o <<"*">>
      [] sub.tag = FilterSubstringsAny -> <<"*">> \o sub.data \o <<"*">>
      [] sub.tag = FilterSubstringsFinal -> <<"*">> \o sub.data
      [] OTHER -> << >>

\* ret of an AttributeValueAssertion with the operator's text.
Assertion(p, op) ==
    IF Len(p.children) < 2 THEN Decompiled(TRUE, <<"(">>)
    ELSE Decompiled(FALSE, <<"(">> \o p.children[1].data \o op \o p.children[2].data \o <<")">>)

DecompileFilter(p) ==
    CASE p.tag = FilterAnd -> decompileChildren(<<"(", "&">>, p.children, 1)
      [] p.tag = FilterOr -> decompileChildren(<<"(", "|">>, p.children, 1)
      [] p.tag = FilterNot ->
            IF p.children = << >> THEN Decompiled(TRUE, <<"(", "!">>)
            ELSE LET child == DecompileFilter(p.children[1])
                 IN  IF child.err THEN Decompiled(TRUE, <<"(", "!">>)
                     ELSE Decompiled(FALSE, <<"(", "!">> \o child.str \o <<")">>)
      [] p.tag = FilterSubstrings ->
            IF Len(p.children) < 2 \/ p.children[2].children = << >>
            THEN Decompiled(TRUE, IF p.children = << >> THEN <<"(">>
                                  ELSE <<"(">> \o p.children[1].data \o <<"=">>)
            ELSE Decompiled(FALSE, <<"(">> \o p.children[1].data \o <<"=">>
                                     \o FirstSubstring(p.children[2].children[1]) \o <<")">>)
      [] p.tag = FilterEqualityMatch -> Assertion(p, <<"=">>)
      [] p.tag = FilterGreaterOrEqual -> Assertion(p, <<">", "=">>)
      [] p.tag = FilterLessOrEqual -> Assertion(p, <<"<", "=">>)
      [] p.tag = FilterPresent -> Decompiled(FALSE, <<"(">> \o p.data \o <<"=", "*", ")">>)
      [] p.tag = FilterApproxMatch -> Assertion(p, <<"~", "=">>)
      [] OTHER -> Decompiled(FALSE, <<"(", ")">>)

\* The user compiles the filter, and decompiles the packet.
Compile ==
    /\ fpc = "input"
    /\ packet' = CompileFilter(filter).packet
    /\ fpc' = IF CompileFilter(filter).err THEN "failed" ELSE "compiled"
    /\ UNCHANGED <<variant, connVars, tableVars, message_id, dpc, rpc, procs,
                   deliv, srvVars, closeVars, callerVars, panicked, mark,
                   abandonVars, stopped, AbandonMessageOnReadTimeout, pagingVars,
                   filter, decompiled, ctlVars, opVars>>

Decompile ==
    /\ fpc = "compiled"
    /\ decompiled' = DecompileFilter(packet)
    /\ fpc' = "decompiled"
    /\ UNCHANGED <<variant, connVars, tableVars, message_id, dpc, rpc, procs,
                   deliv, srvVars, closeVars, callerVars, panicked, mark,
                   abandonVars, stopped, AbandonMessageOnReadTimeout, pagingVars,
                   filter, packet, ctlVars, opVars>>

\* The valid filters tried: items of every kind, the substring items with
\* every pattern of up to MaxPattern characters, And, Or and Not of items
\* and of those, and filters with white space where the syntax takes it.
Item(attr, op, val) == <<"(">> \o attr \o op \o val \o <<")">>
Patterns ==
    {v \in UNION {[1..n -> {"v", "*"}] : n \in 2..MaxPattern} :
        /\ \E i \in 1..Len(v) : v[i] = "*"
        /\ \A i \in 1..(Len(v) - 1) : ~(v[i] = "*" /\ v[i + 1] = "*")}
Items ==
    {Item(<<"a">>, op, <<"v">>) : op \in {<<"=">>, <<">", "=">>, <<"<", "=">>, <<"~", "=">>}}
        \cup {Item(<<"a">>, <<"=">>, <<"*">>)}
        \cup {Item(<<"a">>, <<"=">>, v) : v \in Patterns}
Kids == {Item(<<"a">>, <<"=">>, <<"v">>), Item(<<"a">>, <<"=">>, <<"*">>),
         Item(<<"a">>, <<"=">>, <<"v", "*">>)}
Sets(op, kids) ==
    {<<"(", op>> \o k \o <<")">> : k \in kids}
        \cup {<<"(", op>> \o k[1] \o k[2] \o <<")">> : k \in kids \X kids}
Nots(kids) == {<<"(", "!">> \o k \o <<")">> : k \in kids}
Nested == Sets("&", Kids) \cup Sets("|", Kids) \cup Nots(Kids)
Spaced ==
    {<<"(", " ", "a", " ", "=", "v", ")", " ">>,
     <<"(", " ", "&", " ", "(", "a", "=", "v", ")", " ", "(", "a", ">", "=", "v", ")", ")", " ">>,
     <<"(", "!", " ", "(", " ", "a", "~", "=", "v", ")", " ", ")">>}
Filters ==
    Items \cup Nested \cup Nots(Nested) \cup Sets("&", Nots(Kids)) \cup Spaced

\* The inputs of CompileFilter beyond the valid filters. Substring items
\* with every value of up to MaxValue characters, stars and backslashes
\* among them; and the valid filters cut short, without their first
\* character, and with text after them.
SubValues == UNION {[1..n -> {"v", "w", "*", "\\"}] : n \in 1..MaxValue}
SubItems == {Item(<<"a">>, <<"=">>, v) : v \in SubValues}
Prefixes(f) == {SubSeq(f, 1, n) : n \in 0..(Len(f) - 1)}
ExtraText == {<<")">>, <<"v">>, <<"(">>, Item(<<"a">>, <<"=">>, <<"v">>),
              Item(<<"a">>, <<"=">>, <<"v">>) \o <<")">>}
Cut == UNION {Prefixes(f) : f \in Filters} \cup {Tail(f) : f \in Filters}
Extended == {f \o t : f \in Filters, t \in ExtraText}
\* Combinations with no operand, and a Not with two.
Degenerate ==
    {<<"(", "&", ")">>, <<"(", "|", ")">>, <<"(", "!", ")">>,
     <<"(", "!">> \o Item(<<"a">>, <<"=">>, <<"v">>) \o Item(<<"a">>, <<"=">>, <<"w">>) \o <<")">>}
ParseInputs == Filters \cup SubItems \cup Cut \cup Extended \cup Degenerate

\* ----------------------------------------------------- the specification
\* The steps of the program's goroutines and of callers inside an operation.
Program ==
    \/ \E c \in Ops : handOut(c)
    \/ \E c \in Ops : nextMessageIDClosed(c)
    \/ \E c \in Ops : sendMessage(c)
    \/ \E c \in Ops : \E d \in deliv : receive(c, d)
    \/ \E c \in Ops : receiveClosed(c)
    \/ \E p \in BagToSet(procs) : sendProcessMessage(p)
    \/ \E p \in BagToSet(procs) : processQuit(p)
    \/ \E p \in BagToSet(procs) : processRequest(p, TRUE)
    \/ \E p \in BagToSet(procs) : processResponse(p)
    \/ \E p \in BagToSet(procs) : processFinish(p)
    \/ processLock
    \/ processLocked
    \/ closeResults
    \/ closeChannels
    \/ readerCloseLocked
    \/ CloseLocked
    \/ readerError(FALSE)

\* The read timeouts expire.
Timeouts == \E c \in Ops : timeout(c)

\* The server answers the requests it has read.
Server == \E w \in written, k \in FrameKinds : readerFrame(w, k)

\* What the user and the network do.
Environment ==
    \/ \E c \in Ops, k \in OpKinds : nextMessageID(c, k)
    \/ \E p \in BagToSet(procs) : processRequest(p, FALSE)
    \/ readerError(TRUE)
    \/ Close

Next == Program \/ Timeouts \/ Server \/ Environment

Spec == Init /\ [][Next]_vars

\* The scheduler runs every goroutine that can take a step, and time passes.
Fairness == WF_vars(Program) /\ WF_vars(Timeouts)

FairSpec == Spec /\ Fairness

\* Searches are in flight when the connection ends: the user calls Close, a
\* write to the socket fails, or the reader fails to read or decode a frame.
EndNext ==
    \/ Program
    \/ Server
    \/ \E c \in Ops : nextMessageID(c, "search")
    \/ \E p \in BagToSet(procs) : processRequest(p, FALSE)
    \/ readerError(TRUE)
    \/ Close

EndSpec == InitMarked /\ [][EndNext]_vars /\ WF_vars(Program)

\* The steps of a caller inside Abandon.
AbandonSteps ==
    \/ \E c \in Ops : abandonHandOut(c)
    \/ \E c \in Ops : abandonIDClosed(c)
    \/ \E c \in Ops : abandonSend(c)

\* Searches and calls of Abandon by the user, on a connection the user may
\* close.
AbandonNext ==
    \/ Program
    \/ AbandonSteps
    \/ Server
    \/ \E c \in Ops : nextMessageID(c, "search")
    \/ \E c \in Ops, t \in AbandonTargets : Abandon(c, t)
    \/ Close

AbandonSpec ==
    Init /\ [][AbandonNext]_vars /\ WF_vars(Program) /\ WF_vars(AbandonSteps)

\* One operation built on sendReqRespPacket on a connection with
\* l.ReadTimeout > 0, AbandonMessageOnReadTimeout set or not, that the user
\* may close.
InitTimeout == InitOf("off", BOOLEAN, {0}, {<< >>}, NoControls)

TimeoutNext ==
    \/ Program
    \/ AbandonSteps
    \/ Timeouts
    \/ Server
    \/ nextMessageID(1, "reqresp")
    \/ Close

TimeoutSpec ==
    /\ InitTimeout
    /\ [][TimeoutNext]_vars
    /\ WF_vars(Program) /\ WF_vars(AbandonSteps) /\ WF_vars(Timeouts)

\* The steps of the callback of a SearchWithCallback.
HandlerSteps ==
    \/ \E c \in Ops : \E d \in deliv : handlerStops(c, d)
    \/ \E c \in Ops : \E d \in deliv : handlerAbandons(c, d)
    \/ \E c \in Ops : handlerReturns(c)

\* One call of SearchWithCallback, whose callback may stop the search at an
\* entry, with or without abandoning it, on a connection the user may close.
HandlerNext ==
    \/ Program
    \/ AbandonSteps
    \/ HandlerSteps
    \/ Server
    \/ nextMessageID(1, "callback")
    \/ Close

HandlerSpec ==
    Init /\ [][HandlerNext]_vars /\ WF_vars(Program) /\ WF_vars(AbandonSteps)

\* One SearchWithPaging on a connection that keeps running, against a
\* server that returns a non-empty cookie stubCookies times and then an
\* empty one.
InitPaging == InitOf("off", {FALSE}, 0..MaxCookies, {<< >>}, NoControls)

PagingProgram ==
    \/ \E c \in Ops : handOut(c)
    \/ \E c \in Ops : sendMessage(c)
    \/ \E c \in Ops : \E d \in deliv : receive(c, d)
    \/ \E c \in Ops : pagingLoop(c)
    \/ \E p \in BagToSet(procs) : sendProcessMessage(p)
    \/ \E p \in BagToSet(procs) : processRequest(p, TRUE)
    \/ \E p \in BagToSet(procs) : processResponse(p)
    \/ \E p \in BagToSet(procs) : processFinish(p)

PagingServer == \E w \in written, k \in FrameKinds : readerPage(w, k)

PagingNext ==
    \/ PagingProgram
    \/ PagingServer
    \/ \E size \in 1..MaxPagingSize : SearchWithPaging(1, size)

PagingSpec ==
    /\ InitPaging
    /\ [][PagingNext]_vars
    /\ WF_vars(PagingProgram)
    /\ WF_vars(\E w \in written : readerPage(w, "Done"))

\* Connect, called by c on a connection made by NewLDAPConnection with
\* l.IsTLS = IsTLS: the channels are made and the server is dialled; then
\* either l.start() runs the reader and processMessages (the flag variant
\* sets l.connected) and Connect returns nil, or startTLS is entered and
\* calls nextMessageID, the receive from l.chanMessageID.
Connect(c, IsTLS) ==
    /\ dpc = "off"
    /\ pc[c] = "idle"
    /\ kind[c] # "starttls"
    /\ IF IsTLS
       THEN /\ pc' = [pc EXCEPT ![c] = "recvid"]
            /\ kind' = [kind EXCEPT ![c] = "starttls"]
            /\ UNCHANGED <<dpc, rpc, connected>>
       ELSE /\ dpc' = "select"
            /\ rpc' = "read"
            /\ connected' = TRUE
            /\ UNCHANGED <<pc, kind>>
    /\ UNCHANGED <<extVars, variant, conn, chanMessageID, chanProcessMessage,
                   tableVars, message_id, procs, deliv, srvVars, closeVars,
                   mid, got, res, panicked, mark>>

\* A connection before Connect: no goroutine runs, l.connected is false.
InitConnect ==
    InitAt("off", "off", FALSE, "off", {FALSE}, {0}, {<< >>}, NoControls)

\* The user calls Connect, with l.IsTLS set or not, and once Connect has
\* started the goroutines uses the connection and closes it.
ConnectNext ==
    \/ \E IsTLS \in BOOLEAN : Connect(1, IsTLS)
    \/ Program
    \/ Server
    \/ dpc # "off" /\ nextMessageID(1, "reqresp")
    \/ dpc # "off" /\ Close

ConnectSpec == InitConnect /\ [][ConnectNext]_vars /\ WF_vars(Program)

\* A valid filter is compiled and the result decompiled.
InitFilter == InitOf("off", {FALSE}, {0}, Filters, NoControls) /\ variant = "rwlock"

FilterNext == Compile \/ Decompile

FilterSpec == InitFilter /\ [][FilterNext]_vars /\ WF_vars(FilterNext)

\* Any text is given to CompileFilter.
InitParse == InitOf("off", {FALSE}, {0}, ParseInputs, NoControls) /\ variant = "rwlock"

ParseNext == Compile

ParseSpec == InitParse /\ [][ParseNext]_vars /\ WF_vars(ParseNext)

\* A tag that is none of the Filter* constants.
UnknownTag == 10

\* The trees given to DecompileFilter that CompileFilter did not build: the
\* nodes of every tag with zero, one and two children.
Node(tag, children) == BerPacket("context", tag, << >>, children)
Operands == << OctetString(<<"a">>), OctetString(<<"v">>) >>
SegmentLists ==
    {<< >>} \cup {<< BerPacket("context", t, <<"v">>, << >>) >> :
                    t \in {FilterSubstringsInitial, FilterSubstringsAny, FilterSubstringsFinal}}
Leaves ==
    {Node(t, SubSeq(Operands, 1, n)) :
        t \in {FilterEqualityMatch, FilterGreaterOrEqual, FilterLessOrEqual,
               FilterApproxMatch, FilterSubstrings}, n \in 0..1}
      \cup {Node(t, Operands) :
               t \in {FilterEqualityMatch, FilterGreaterOrEqual, FilterLessOrEqual,
                      FilterApproxMatch}}
      \cup {Node(FilterSubstrings,
                 << Operands[1], BerPacket("universal", "Sequence", << >>, s) >>) :
               s \in SegmentLists}
      \cup {BerPacket("context", FilterPresent, <<"a">>, << >>), Node(UnknownTag, << >>)}
Branches(kids) ==
    {Node(t, k) : t \in {FilterAnd, FilterOr, FilterNot},
                  k \in {<< >>} \cup {<<a>> : a \in kids}}
      \cup {Node(t, <<Node(FilterEqualityMatch, Operands), a>>) :
               t \in {FilterAnd, FilterOr}, a \in kids}
Trees == Leaves \cup Branches(Leaves) \cup Branches(Branches(Leaves))

\* The user calls DecompileFilter with a tree.
DecompileTree ==
    /\ fpc = "input"
    /\ \E t \in Trees :
          /\ packet' = t
          /\ decompiled' = DecompileFilter(t)
    /\ fpc' = "decompiled"
    /\ UNCHANGED <<variant, connVars, tableVars, message_id, dpc, rpc, procs,
                   deliv, srvVars, closeVars, callerVars, panicked, mark,
                   abandonVars, stopped, AbandonMessageOnReadTimeout, pagingVars,
                   filter, ctlVars, opVars>>

InitTree == InitOf("off", {FALSE}, {0}, {<< >>}, NoControls) /\ variant = "rwlock"

TreeNext == DecompileTree

TreeSpec == InitTree /\ [][TreeNext]_vars /\ WF_vars(TreeNext)

\* ------------------------------------------------------------------ Add
\* encodeAddRequest without the check of the values.
encodeAddRequestUnchecked(req) == [err |-> FALSE, attributeList |-> req]

\* encodeAddRequest(addReq): the error for the first attribute without
\* values, else the packet with the attribute list.
encodeAddRequest(req) ==
    IF \E i \in DOMAIN req : Len(req[i]) = 0
    THEN [err |-> TRUE, attributeList |-> << >>]
    ELSE [err |-> FALSE, attributeList |-> req]

\* The user calls l.Add(addReq); Add calls l.nextMessageID().
Add(c, req) ==
    /\ ~panicked
    /\ pc[c] = "idle"
    /\ \A b \in Ops : b < c => pc[b] # "idle"
    /\ pc' = [pc EXCEPT ![c] = IF chanMessageID = "nil" THEN "nilrecv" ELSE "add_recvid"]
    /\ kind' = [kind EXCEPT ![c] = "add"]
    /\ addReq' = [addReq EXCEPT ![c] = req]
    /\ UNCHANGED <<abandonVars, stopped, AbandonMessageOnReadTimeout, pagingVars, pureVars,
                   code, variant, connVars, tableVars, message_id, dpc, rpc, procs,
                   deliv, srvVars, closeVars, mid, got, res, panicked, mark>>

\* Add with the message ID id: the request is encoded, and Add returns the
\* error of encodeAddRequest or goes on to l.sendMessage(packet).
addEncode(c, id) ==
    /\ mid' = [mid EXCEPT ![c] = id]
    /\ IF encodeAddRequest(addReq[c]).err
       THEN /\ pc' = [pc EXCEPT ![c] = "done"]
            /\ res' = [res EXCEPT ![c] = "encoding"]
       ELSE /\ pc' = [pc EXCEPT ![c] = "send"]
            /\ res' = res

\* processMessages' case l.chanMessageID <- message_id, received by the
\* nextMessageID of Add.
addHandOut(c) ==
    /\ ~panicked
    /\ dpc = "select"
    /\ chanMessageID = "open"
    /\ pc[c] = "add_recvid"
    /\ message_id' = NextID(message_id)
    /\ addEncode(c, message_id)
    /\ UNCHANGED <<extVars, variant, connVars, tableVars, dpc, rpc, procs, deliv,
                   srvVars, closeVars, kind, got, panicked, mark>>

\* The receive of Add's nextMessageID on a closed l.chanMessageID: as in
\* nextMessageIDClosed, ErrorClosing in the flag variant and message ID 0 in
\* the rwlock variant.
addIDClosed(c) ==
    /\ ~panicked
    /\ pc[c] = "add_recvid"
    /\ chanMessageID # "open"
    /\ IF variant = "flag"
       THEN /\ pc' = [pc EXCEPT ![c] = "done"]
            /\ res' = [res EXCEPT ![c] = "closing"]
            /\ mid' = mid
       ELSE addEncode(c, 0)
    /\ UNCHANGED <<extVars, variant, connVars, tableVars, message_id, dpc, rpc, procs,
                   deliv, srvVars, closeVars, kind, got, panicked, mark>>

\* The requests tried: up to MaxAttributes attributes, each with up to
\* MaxAttrValues values.
AttrValues == UNION {[1..n -> {"v"}] : n \in 0..MaxAttrValues}
AddRequests == UNION {[1..n -> AttrValues] : n \in 1..MaxAttributes}

AddSteps ==
    \/ \E c \in Ops : addHandOut(c)
    \/ \E c \in Ops : addIDClosed(c)

\* Calls of Add, and of an operation built on sendReqRespPacket, on a
\* connection the user may close.
AddNext ==
    \/ Program
    \/ AddSteps
    \/ Server
    \/ \E c \in Ops, req \in AddRequests : Add(c, req)
    \/ \E c \in Ops : nextMessageID(c, "reqresp")
    \/ Close

AddSpec == Init /\ [][AddNext]_vars /\ WF_vars(Program) /\ WF_vars(AddSteps)

\* A compare, answered by the server with any of the results, on a
\* connection the user may close.
CompareNext ==
    \/ Program
    \/ \E w \in written, k \in CompareResponses : readerFrame(w, k)
    \/ nextMessageID(1, "compare")
    \/ Close

CompareSpec == Init /\ [][CompareNext]_vars /\ WF_vars(Program)

\* ------------------------------------------------------------ controls
\* control.go. A ber.Packet as the controls use it: its tag, whether it is
\* constructed, its Value (nil, a string, a bool or a uint64), its Data
\* bytes and its Children. Strings, cookies and object identifiers are
\* sequences of numbers.
BerValue(k, str, num, bool) == [kind |-> k, str |-> str, num |-> num, bool |-> bool]
NilValue == BerValue("nil", << >>, 0, FALSE)
StringValue(s) == BerValue("string", s, 0, FALSE)
BoolValue(b) == BerValue("bool", << >>, 0, b)
Uint64Value(n) == BerValue("uint64", << >>, n, FALSE)
BytesValue(b) == BerValue("bytes", b, 0, FALSE)

Packet(tag, constructed, value, data, children) ==
    [tag |-> tag, constructed |-> constructed, value |-> value,
     data |-> data, children |-> children]

\* ber.Encode(class, type, tag, nil, description)
berEncode(tag, constructed) == Packet(tag, constructed, NilValue, << >>, << >>)
\* ber.NewString, ber.NewBoolean, ber.NewInteger: the Value and its bytes.
NewString(s) == Packet("OctetString", FALSE, StringValue(s), s, << >>)
NewBoolean(b) == Packet("Boolean", FALSE, BoolValue(b), <<IF b THEN 255 ELSE 0>>, << >>)
NewInteger(n) == Packet("Integer", FALSE, Uint64Value(n), <<n>>, << >>)

\* p.Bytes(): the identifier, the length of the contents and the contents.
TagByte(tag) ==
    CASE tag = "Boolean" -> 1
      [] tag = "Integer" -> 2
      [] tag = "OctetString" -> 4
      [] OTHER -> 48
Bytes(p) == <<TagByte(p.tag), Len(p.data)>> \o p.data

\* p.AppendChild(child) without the write of the child's bytes.
AppendChildOnly(p, child) == [p EXCEPT !.children = Append(@, child)]

\* p.AppendChild(child): the child's bytes are written to p.Data and the
\* child is appended to p.Children.
AppendChildBytes(p, child) ==
    [p EXCEPT !.data = @ \o Bytes(child), !.children = Append(@, child)]

\* ber.DecodePacket(bytes): the packet the bytes encode. The Value of a
\* primitive packet is decoded from its contents by its tag; the contents
\* of a constructed packet are the encodings of its children.
RECURSIVE DecodePackets(_)
DecodePackets(b) ==
    IF Len(b) < 2 \/ Len(b) < 2 + b[2] THEN << >>
    ELSE LET content == SubSeq(b, 3, 2 + b[2])
             rest == SubSeq(b, 3 + b[2], Len(b))
             p == CASE b[1] = 1 -> Packet("Boolean", FALSE, BoolValue(content # <<0>>), content, << >>)
                    [] b[1] = 2 -> Packet("Integer", FALSE,
                                          Uint64Value(IF content = << >> THEN 0 ELSE content[1]),
                                          content, << >>)
                    [] b[1] = 4 -> Packet("OctetString", FALSE, StringValue(content), content, << >>)
                    [] OTHER -> Packet("Sequence", TRUE, NilValue, content, DecodePackets(content))
         IN <<p>> \o DecodePackets(rest)
DecodePacket(b) == DecodePackets(b)[1]

ControlTypePaging == <<1, 2, 840, 113556, 1, 4, 319>>
ControlTypeManageDsaITRequest == <<2, 16, 840, 1, 113730, 3, 4, 2>>
ControlTypeSubtreeDeleteRequest == <<1, 2, 840, 113556, 1, 4, 805>>

Control(type, oid, crit, val, size, cookie) ==
    [type |-> type, ControlType |-> oid, Criticality |-> crit,
     ControlValue |-> val, PagingSize |-> size, Cookie |-> cookie]
ControlString(oid, crit, val) == Control("ControlString", oid, crit, val, 0, << >>)
ControlPaging(size, cookie) ==
    Control("ControlPaging", ControlTypePaging, FALSE, << >>, size, cookie)

\* (c *ControlString) Encode()
ControlStringEncode(c) ==
    LET p1 == AppendChildBytes(berEncode("Sequence", TRUE), NewString(c.ControlType))
        p2 == IF c.Criticality
              THEN AppendChildBytes(p1, NewBoolean(c.Criticality))
              ELSE p1
    IN IF Len(c.ControlValue) # 0
       THEN AppendChildBytes(p2, NewString(c.ControlValue))
       ELSE p2

\* (c *ControlPaging) Encode()
ControlPagingEncode(c) ==
    LET p == AppendChildBytes(berEncode("Sequence", TRUE), NewString(ControlTypePaging))
        p2 == berEncode("OctetString", FALSE)
        seq == AppendChildBytes(berEncode("Sequence", TRUE), NewInteger(c.PagingSize))
        cookie == [berEncode("OctetString", FALSE) EXCEPT
                      !.value = BytesValue(c.Cookie), !.data = c.Cookie]
    IN AppendChildBytes(p, AppendChildBytes(p2, AppendChildBytes(seq, cookie)))

\* c.Encode() of the Control interface
Encode(c) ==
    IF c.type = "ControlPaging" THEN ControlPagingEncode(c) ELSE ControlStringEncode(c)

\* DecodeControl(p): the Control it returns, or the panic of an index out
\* of range or of a failed type assertion.
Panics == [panic |-> TRUE, control |-> Control("none", << >>, FALSE, << >>, 0, << >>)]
Returns(c) == [panic |-> FALSE, control |-> c]
DecodeControl(p) ==
    IF p.children = << >> \/ p.children[1].value.kind # "string" THEN Panics
    ELSE IF Len(p.children) < 2 THEN Panics
    ELSE IF Len(p.children) = 3 /\ p.children[2].value.kind # "bool" THEN Panics
    ELSE LET ControlType == p.children[1].value.str
             value == IF Len(p.children) = 3 THEN p.children[3] ELSE p.children[2]
             Criticality == Len(p.children) = 3 /\ p.children[2].value.bool
         IN IF ControlType = ControlTypePaging
            THEN LET outer == IF value.value.kind # "nil"
                              THEN IF DecodePackets(value.data) = << >>
                                   THEN [value EXCEPT !.data = << >>, !.value = NilValue]
                                   ELSE AppendChildBytes(
                                            [value EXCEPT !.data = << >>, !.value = NilValue],
                                            DecodePacket(value.data))
                              ELSE value
                 IN IF outer.children = << >> THEN Panics
                    ELSE IF Len(outer.children[1].children) < 2 THEN Panics
                    ELSE IF outer.children[1].children[1].value.kind # "uint64" THEN Panics
                    ELSE Returns(ControlPaging(outer.children[1].children[1].value.num,
                                               outer.children[1].children[2].data))
            ELSE IF value.value.kind # "string" THEN Panics
            ELSE Returns(ControlString(ControlType, Criticality, value.value.str))

\* The control is encoded.
EncodeControl ==
    /\ cpc = "input"
    /\ cpacket' = Encode(ctl)
    /\ cbytes' = Bytes(Encode(ctl))
    /\ cpc' = "encoded"
    /\ UNCHANGED <<ldapVars, panicked, filterVars, ctl, cresult, reencoded>>

\* The encoding goes over the wire: the packet is the one the receiver's
\* ber.ReadPacket builds from the bytes.
Transmit ==
    /\ cpc = "encoded"
    /\ cpacket' = DecodePacket(cbytes)
    /\ cpc' = "received"
    /\ UNCHANGED <<ldapVars, panicked, filterVars, ctl, cbytes, cresult, reencoded>>

\* DecodeControl is given the packet, the one Encode built or the one that
\* was received.
Decode ==
    /\ cpc \in {"encoded", "received"}
    /\ cresult' = DecodeControl(cpacket).control
    /\ panicked' = DecodeControl(cpacket).panic
    /\ cpc' = IF DecodeControl(cpacket).panic THEN "panic" ELSE "decoded"
    /\ UNCHANGED <<ldapVars, filterVars, ctl, cpacket, cbytes, reencoded>>

\* The Control DecodeControl returned is encoded.
Reencode ==
    /\ cpc = "decoded"
    /\ reencoded' = Bytes(Encode(cresult))
    /\ cpc' = "reencoded"
    /\ UNCHANGED <<ldapVars, panicked, filterVars, ctl, cpacket, cbytes, cresult>>

\* The controls tried: paging controls of every size in PagingSizes with
\* every cookie of up to MaxCookieLen bytes, and controls of the types
\* DecodeControl has no special case for, critical and not, with every
\* value of up to MaxControlValue bytes.
ByteValues == {0, 255}
ByteStrings(n) == UNION {[1..k -> ByteValues] : k \in 0..n}
PagingSizes == {0, 1, MaxPagingSize, LargePagingSize}
UnknownTypes == {ControlTypeManageDsaITRequest, ControlTypeSubtreeDeleteRequest}
Controls ==
    {ControlPaging(size, cookie) : size \in PagingSizes, cookie \in ByteStrings(MaxCookieLen)}
    \cup {ControlString(oid, crit, val) :
              oid \in UnknownTypes, crit \in BOOLEAN, val \in ByteStrings(MaxControlValue)}

InitControl == InitOf("off", {FALSE}, {0}, {<< >>}, Controls) /\ variant = "rwlock"

ControlNext == EncodeControl \/ Transmit \/ Decode \/ Reencode

ControlSpec == InitControl /\ [][ControlNext]_vars /\ WF_vars(ControlNext)

\* Controls with the paging type given as a ControlString, critical and not:
\* their value is the encoding of the Search Control Value of a
\* ControlPaging.
PagingValue(size, cookie) ==
    Bytes(ControlPagingEncode(ControlPaging(size, cookie)).children[2].children[1])
PagingStrings ==
    {ControlString(ControlTypePaging, crit, PagingValue(size, cookie)) :
        crit \in BOOLEAN, size \in PagingSizes, cookie \in ByteStrings(MaxCookieLen)}

\* Controls of every type, known and unknown, are encoded and decoded.
InitCritical ==
    InitOf("off", {FALSE}, {0}, {<< >>}, Controls \cup PagingStrings) /\ variant = "rwlock"

CriticalSpec == InitCritical /\ [][ControlNext]_vars /\ WF_vars(ControlNext)

\* ------------------------------------------------------------- claims
\* Caller c holds a message ID the dispatcher handed out.
HasID(c) == pc[c] \in {"send", "wait", "done"} /\ mid[c] > 0

\* C1: the message IDs the dispatcher hands out through l.chanMessageID are
\* pairwise distinct and strictly increasing in hand-out order: each ID
\* handed to a caller is greater than every ID any caller holds already.
C1_IDsDistinctIncreasing ==
    [][\A c \in Ops :
          mid'[c] # mid[c] =>
             /\ mid'[c] > 0
             /\ \A b \in Ops : mid[b] < mid'[c]]_vars

\* C1 witness: two operations hold message IDs.
C1_Witness == \E b, c \in Ops : b # c /\ HasID(b) /\ HasID(c)

\* C2: a response frame is handed only to the channel registered for the
\* frame's own message ID: every frame a caller received, and every frame a
\* delivery goroutine holds for a caller, carries the caller's message ID,
\* and no frame reaches a caller twice.
C2_NoCrossDelivery ==
    /\ \A d \in deliv : d.id = mid[d.ch]
    /\ \A c \in Ops : \A i \in 1..Len(got[c]) :
          /\ got[c][i].id = mid[c]
          /\ \A j \in 1..Len(got[c]) : got[c][i].seq = got[c][j].seq => i = j
    /\ \A b, c \in Ops : \A i \in 1..Len(got[b]) : \A j \in 1..Len(got[c]) :
          got[b][i].seq = got[c][j].seq => b = c

\* C2 witness: two operations in flight at once have each received a frame.
C2_Witness ==
    \E b, c \in Ops : b # c /\ Len(got[b]) > 0 /\ Len(got[c]) > 0

\* C3: when Close is called while operations are blocked waiting for a
\* response, every one of the callers waiting at that moment eventually stops
\* waiting (unless the program has panicked).
C3_CloseReleasesWaiters ==
    \A c \in Ops :
        [](mark.ev = "close" /\ c \in mark.who => <>(pc[c] = "done" \/ panicked))

\* C4: when the user has called Close, with operations in flight and racing
\* with the reader's deferred Close, no goroutine panics.
C4_CloseNeverPanics == mark.ev = "close" => ~panicked

\* C5: an operation that is in nextMessageID or sendMessage when the
\* shutdown is over (closeAllChannels has returned) eventually returns to
\* its caller (unless the program has panicked).
C5_ShutdownOpReturns ==
    \A c \in Ops :
        [](pc[c] \in {"recvid", "nilrecv", "send"} /\ dpc = "done"
             => <>(pc[c] = "done" \/ panicked))

\* C6: when a write of a request to the socket fails, every caller pending
\* at that moment eventually stops waiting, and the dispatcher stops (unless
\* the program has panicked).
C6_WriteFailureReleasesAll ==
    /\ \A c \in Ops :
          [](mark.ev = "write" /\ c \in mark.who => <>(pc[c] = "done" \/ panicked))
    /\ [](mark.ev = "write" => <>(dpc = "done" \/ panicked))

\* C7: when the reader fails to read or decode a frame, the reader stops, the
\* dispatcher eventually exits and every caller pending at that moment
\* eventually stops waiting (unless the program has panicked).
C7_ReadFailureShutsDown ==
    /\ [](mark.ev = "read" => <>(rpc = "done" \/ panicked))
    /\ [](mark.ev = "read" => <>(dpc = "done" \/ panicked))
    /\ \A c \in Ops :
          [](mark.ev = "read" /\ c \in mark.who => <>(pc[c] = "done" \/ panicked))

\* C8: when processMessages receives a response whose message ID has no
\* entry in l.chanResults, the table, the delivery goroutines and every
\* caller are left as they are, nothing panics, and processMessages is back
\* in its select.
C8_UnknownResponseDiscarded ==
    [][\A p \in Held :
          (/\ dpc = "select"
           /\ p.m.op = MessageResponse
           /\ p.m.id \notin DOMAIN chanResults
           /\ procs' = Drop(p))
          => /\ UNCHANGED <<tableVars, deliv, callerVars, message_id>>
             /\ dpc' = "select"
             /\ ~panicked']_vars

\* Frame s of the reader is with a sendProcessMessage goroutine, with a
\* delivery goroutine or with a caller.
FrameKept(s) ==
    \/ \E p \in BagToSet(procs) : p.m.op = MessageResponse /\ p.m.seq = s
    \/ \E d \in deliv : d.seq = s
    \/ \E c \in Ops : \E i \in 1..Len(got[c]) : got[c][i].seq = s

\* C8 witness: a frame the reader decoded has been discarded by
\* processMessages, which is in its select.
C8_Witness ==
    /\ dpc = "select"
    /\ ~panicked
    /\ \E s \in 1..nframes : ~FrameKept(s)

\* C9: after an operation that sent its request has returned, the entry of
\* its message ID is eventually absent from l.chanResults for good, as long
\* as processMessages keeps running.
C9_EntryRemovedForGood ==
    \A c \in Ops :
        [](pc[c] = "done" /\ res[c] \in {"ok", "network", "timeout"} /\ mid[c] > 0
             => \/ <>[](mid[c] \notin DOMAIN chanResults)
                \/ <>(dpc # "select" \/ panicked))

\* C10: a caller receives the frames of its operation in the order the
\* reader decoded them.
C10_FramesInOrder ==
    \A c \in Ops : \A i, j \in 1..Len(got[c]) :
        i < j => got[c][i].seq < got[c][j].seq

\* The message IDs for which a call of Abandon by the user has returned nil.
AbandonedIDs ==
    {target[c] : c \in {b \in Ops : kind[b] = "abandon" /\ pc[b] = "done"
                                      /\ res[b] = "ok"}}

\* C11: after Abandon has returned nil, the entry of its own message ID is
\* eventually absent from l.chanResults for good, as long as processMessages
\* keeps running.
C11_AbandonEntryReleased ==
    \A c \in Ops :
        [](kind[c] = "abandon" /\ pc[c] = "done" /\ res[c] = "ok"
             => \/ <>[](aid[c] \notin DOMAIN chanResults)
                \/ <>(dpc # "select" \/ panicked))

\* C12: a call of Abandon that has returned has returned nil, whatever the
\* state of the connection and whatever the target (on the connection of
\* conn.go 1-360, which abandon.go is written against).
C12_AbandonNeverErrors ==
    \A c \in Ops :
        variant = "rwlock" /\ kind[c] = "abandon" /\ pc[c] = "done"
            => res[c] = "ok"

\* C13: when processMessages receives a response whose message ID Abandon
\* has been called for (and has returned nil), no delivery goroutine is
\* started for it.
C13_StaleResponseDiscarded ==
    [][\A p \in Held :
          (/\ dpc = "select"
           /\ p.m.op = MessageResponse
           /\ p.m.id \in AbandonedIDs
           /\ procs' = Drop(p))
          => deliv' = deliv]_vars

\* The errors sendReqRespPacket returns from its timeout case.
TimeoutErrors == {"timeout", "timeout, error on Abandon"}

\* C14: a caller of sendReqRespPacket whose read timeout expired receives a
\* timeout error, with AbandonMessageOnReadTimeout false and true. Without
\* the flag the error is returned in the timeout step itself; with it the
\* caller is inside Abandon first, and must come back.
C14_TimeoutErrorReturned ==
    \A c \in Ops :
        [](ret[c] = "timeout" => <>(pc[c] = "done" /\ res[c] \in TimeoutErrors))

\* The response frames for message ID id that the reader has decoded and no
\* caller has received: in sendProcessMessage goroutines or in delivery
\* goroutines. The server sends no frame for a message ID after its Done.
InFlight(id) ==
    {p.m.seq : p \in {q \in BagToSet(procs) : q.m.op = MessageResponse /\ q.m.id = id}}
        \cup {d.seq : d \in {x \in deliv : x.id = id}}

\* C15: when Search has returned a result, the frames it accumulated end
\* with Done, are in the order the server sent them, and are all the frames
\* the server sent for the search: none is still in flight.
C15_SearchResultComplete ==
    \A c \in Ops :
        kind[c] = "search" /\ pc[c] = "done" /\ res[c] = "ok"
            => /\ got[c] # << >>
               /\ got[c][Len(got[c])].kind = "Done"
               /\ \A i \in 1..(Len(got[c]) - 1) :
                      got[c][i].kind = "Entry" /\ got[c][i].seq < got[c][i + 1].seq
               /\ InFlight(mid[c]) = {}

\* C16: when the callback of a search has set stopProcessing at an entry,
\* the loop has stopped without an error and Abandon has been called for
\* the search's message ID.
C16_StopSendsAbandon ==
    \A c \in Ops :
        stopped[c] => pc[c] = "done" /\ res[c] = "ok" /\ target[c] = mid[c]

\* C17: after the callback has abandoned its search and set stopProcessing,
\* the search call has returned without an error, and the callback is called
\* for no further frame.
C17_AbandonHaltsLoop ==
    [][\A c \in Ops :
          stopped[c] /\ ret[c] = "handler"
              => pc[c] = "done" /\ res[c] = "ok" /\ pc'[c] = "done" /\ got'[c] = got[c]]_vars

\* A search was abandoned and stopped by its callback, and a further frame
\* of the search has reached its channel's delivery goroutine.
C17_Witness ==
    \E c \in Ops :
        /\ stopped[c] /\ ret[c] = "handler" /\ pc[c] = "done" /\ res[c] = "ok"
        /\ \E d \in deliv : d.ch = c /\ d.id = mid[c]

\* The entries of all the pages, in the order the server sent them.
ServedEntries == SelectSeq([i \in 1..Len(frames) |-> i], LAMBDA i : frames[i].kind = "Entry")

\* SearchWithPaging has returned its result to caller c.
PagingReturned(c) == kind[c] = "paging" /\ pc[c] = "returned"

\* C18 (the requests): SearchWithPaging returns without an error after
\* exactly stubCookies + 1 search requests.
PagingRequestCount ==
    \A c \in Ops :
        PagingReturned(c) => res[c] = "ok" /\ Len(requests[c]) = stubCookies + 1

\* C18 (termination): SearchWithPaging returns.
PagingTerminates ==
    \A c \in Ops : [](kind[c] = "paging" => <>PagingReturned(c))

\* C18: against a server that returns a non-empty cookie stubCookies times
\* and then an empty one, SearchWithPaging returns after exactly
\* stubCookies + 1 search requests the entries of all the responses, in
\* page order.
C18_PagingReturnsUnion ==
    \A c \in Ops :
        PagingReturned(c)
            => /\ res[c] = "ok"
               /\ Len(requests[c]) = stubCookies + 1
               /\ [i \in 1..Len(PagedEntries(c)) |-> PagedEntries(c)[i].seq] = ServedEntries

\* C19 (the cookies): every request after the first carries the cookie of
\* the response before it, which was non-empty.
PagingCookiesChained ==
    \A c \in Ops : \A i \in 1..Len(requests[c]) :
        requests[c][i].Cookie = i - 1

\* C19: when SearchWithPaging has returned after the empty cookie, its
\* requests carried the cookies of the responses before them, and the last
\* request it issued has paging size zero.
C19_FinalRequestSizeZero ==
    \A c \in Ops :
        PagingReturned(c) /\ res[c] = "ok"
            => /\ \A i \in 1..(Len(requests[c]) - 1) : requests[c][i].Cookie = i - 1
               /\ requests[c][Len(requests[c])].PagingSize = 0

\* The filter without its white space.
StripSpace(s) == SelectSeq(s, LAMBDA ch : ch \notin WhiteSpace)

\* C20: a valid filter with no extensible-match item compiles, and the
\* decompilation of the result succeeds and yields the filter, white space
\* apart.
C20_FilterRoundTrip ==
    /\ fpc # "failed"
    /\ fpc = "decompiled" => ~decompiled.err /\ decompiled.str = StripSpace(filter)

\* The positions of the stars of value that are not escaped: those with an
\* even number of backslashes right before them.
Backslashes(value, q) ==
    Cardinality({k \in 1..(q - 1) : \A j \in k..(q - 1) : value[j] = "\\"})
Stars(value) ==
    {q \in 1..Len(value) : value[q] = "*" /\ Backslashes(value, q) % 2 = 0}

\* The n-th star of value, 0 before the value and Len + 1 after the last.
NthStar(value, n) ==
    IF n = 0 THEN 0
    ELSE IF n > Cardinality(Stars(value)) THEN Len(value) + 1
    ELSE CHOOSE q \in Stars(value) : Cardinality({r \in Stars(value) : r <= q}) = n

\* The segments of value between its stars, each with the tag the claim
\* gives it, the empty ones left out.
Segments(value) ==
    LET n == Cardinality(Stars(value))
        piece(k) == SubSeq(value, NthStar(value, k) + 1, NthStar(value, k + 1) - 1)
        tag(k) == IF k = 0 THEN FilterSubstringsInitial
                  ELSE IF k = n THEN FilterSubstringsFinal
                  ELSE FilterSubstringsAny
        all == [k \in 1..(n + 1) |-> BerPacket("context", tag(k - 1), piece(k - 1), << >>)]
    IN  SelectSeq(all, LAMBDA p : p.data # << >>)

\* The value of the filter when it is one item (a=value).
ItemValue == SubSeq(filter, 4, Len(filter) - 1)

\* The filter is a substring item that has compiled.
SubstringCompiled ==
    /\ fpc = "compiled"
    /\ filter \in SubItems
    /\ Stars(ItemValue) # {}
    /\ ItemValue # <<"*">>

\* C21: a compiled '=' item whose value has unescaped stars is a Substrings
\* node of the attribute with the segments between the stars: initial
\* before the first, any between two, final after the last, in order, the
\* empty ones left out.
C21_SubstringSegments ==
    SubstringCompiled
        => /\ packet.tag = FilterSubstrings
           /\ packet.children[1].data = <<"a">>
           /\ packet.children[2].children = Segments(ItemValue)

\* (a=v*w*v) has compiled: initial, any and final.
C21_Witness ==
    /\ SubstringCompiled
    /\ ItemValue = <<"v", "*", "w", "*", "v">>
    /\ Len(packet.children[2].children) = 3

\* Whether the parentheses of s that are not escaped are balanced: as many
\* closed as opened, and never more closed than opened.
Parens(s, n, ch) ==
    Cardinality({q \in 1..n : s[q] = ch /\ Backslashes(s, q) % 2 = 0})
Balanced(s) ==
    /\ Parens(s, Len(s), "(") = Parens(s, Len(s), ")")
    /\ \A n \in 1..Len(s) : Parens(s, n, ")") <= Parens(s, n, "(")

\* C22: CompileFilter returns a tree only for an input that is not empty,
\* starts with "(" and has balanced parentheses.
C22_CompileRejectsMalformed ==
    fpc = "compiled"
        => filter # << >> /\ filter[1] = "(" /\ Balanced(filter)

\* C23: a compiled '=' item whose value has unescaped stars and is not "*"
\* has at least one initial, any or final segment.
C23_SubstringsNotEmpty ==
    SubstringCompiled /\ packet.tag = FilterSubstrings
        => packet.children[2].children # << >>

\* The valid filters whose root is an And, Or or Not: their last ")" closes
\* the only frame left on the stack.
Combined == {f \in Filters : At(f, Skip(f, 2, WhiteSpace)) \in {"&", "|", "!"}}

\* C30: an And, Or or Not filter followed by further text that is not white
\* space is not compiled: nothing is attached to the closed root.
C30_ClosedRootTakesNoChildren ==
    filter \in {f \o t : f \in Combined, t \in ExtraText} => fpc # "compiled"

\* C24: for every paging control, whatever its size and its cookie (the
\* empty cookie too), DecodeControl of its encoding does not fail and
\* returns a paging control with the same size and the same cookie.
C24_PagingRoundTrip ==
    ctl.type = "ControlPaging" =>
        /\ cpc # "panic"
        /\ cpc \in {"decoded", "reencoded"} =>
               /\ cresult.type = "ControlPaging"
               /\ cresult.PagingSize = ctl.PagingSize
               /\ cresult.Cookie = ctl.Cookie

\* The paging control of the largest size with the empty cookie has gone
\* over the wire and has been decoded.
C24_Witness ==
    /\ cpc = "decoded"
    /\ ctl = ControlPaging(LargePagingSize, << >>)
    /\ cpacket.children[2].children = << >>
    /\ cresult = ctl

\* C25: for every control of a type DecodeControl has no special case for,
\* whatever its criticality and its value (the empty value too),
\* DecodeControl of its encoding does not panic and returns a
\* ControlString with the same type, criticality and value, whose encoding
\* is byte for byte the encoding it was decoded from.
C25_UnknownControlRoundTrip ==
    ctl.type = "ControlString" =>
        /\ cpc # "panic"
        /\ cpc \in {"decoded", "reencoded"} => cresult = ctl
        /\ cpc = "reencoded" => reencoded = cbytes

\* The callers whose Add has an attribute without values.
BadAdds == {c \in Ops : kind[c] = "add" /\ << >> \in {addReq[c][i] : i \in DOMAIN addReq[c]}}

C27_CompareSurfacesResultCode ==
    \A c \in Ops :
        kind[c] = "compare" /\ pc[c] = "done" /\ got[c] # << >> =>
            /\ code[c] = getLDAPResultCode(got[c][Len(got[c])].kind)
            /\ got[c][Len(got[c])].kind = "CompareTrue" =>
                   res[c] = "error" /\ code[c] = LDAPResultCompareTrue
            /\ got[c][Len(got[c])].kind = "CompareFalse" =>
                   res[c] = "error" /\ code[c] = LDAPResultCompareFalse
            /\ got[c][Len(got[c])].id = mid[c]

\* A Compare has returned CompareTrue.
C27_Witness ==
    \E c \in Ops :
        /\ kind[c] = "compare" /\ pc[c] = "done" /\ res[c] = "error"
        /\ got[c] # << >> /\ got[c][1].kind = "CompareTrue"
        /\ code[c] = LDAPResultCompareTrue

\* The step is one of processMessages that writes: it has received a
\* request or a finish message, or it runs the loop of closeAllChannels.
DispatcherWrites ==
    \/ /\ dpc = "select"
       /\ \E p \in Held : p.m.op \in {MessageRequest, MessageFinish} /\ procs' = Drop(p)
    \/ dpc = "ca_results" /\ dpc' = "ca_nil"

\* The step is the insert of a caller's sendMessage (flag variant), taken
\* while processMessages is outside closeAllChannels.
CallerInserts ==
    /\ variant = "flag"
    /\ dpc \notin closeAllSteps
    /\ dpc' = dpc
    /\ \E c \in Ops : /\ pc[c] = "send"
                      /\ pc'[c] = "wait"
                      /\ chanResults' = Register(chanResults, mid[c], c)

\* C28: the socket is written only by steps of processMessages, and the
\* correlation table is changed only by a step of processMessages or by
\* the insert of one caller's sendMessage that holds chanResultsLock, never
\* by both at once and never by a caller while closeAllChannels clears it.
C28_SingleWriter ==
    [][/\ written' # written => DispatcherWrites
       /\ chanResults' # chanResults =>
              \/ DispatcherWrites /\ ~CallerInserts
              \/ CallerInserts /\ ~DispatcherWrites]_vars

\* A caller is at sendMessage's Lock() while closeAllChannels, holding the
\* lock, is about to clear a table with another caller's entry.
C28_Witness ==
    /\ variant = "flag"
    /\ dpc = "ca_results"
    /\ chanResults # << >>
    /\ \E c \in Ops : pc[c] = "send"

\* The search of caller c is over: it has returned, it has consumed
\* SearchResultDone, or its callback has set stopProcessing.
SearchOver(c) ==
    \/ pc[c] = "done"
    \/ \E i \in DOMAIN got[c] : got[c][i].kind = "Done"
    \/ stopped[c]

\* Abandon has been called for the search of caller c, and has returned
\* nil, while the search was waiting for a frame.
SearchAbandoned(c) == pc[c] = "wait" /\ mid[c] \in AbandonedIDs

\* C29: once a search has consumed SearchResultDone or has been stopped by
\* its callback, it has returned; from then on, and once it has been
\* abandoned, it consumes no frame and what it has accumulated and
\* returned does not change.
C29_DoneIsTerminal ==
    [][\A c \in Ops :
          kind[c] \in {"search", "callback"} =>
              /\ SearchOver(c) =>
                     pc[c] = "done" /\ pc'[c] = "done" /\ res'[c] = res[c]
              /\ SearchOver(c) \/ SearchAbandoned(c) => got'[c] = got[c]]_vars

\* The filter tree p keeps the sizes of the Filter type: an And and an Or
\* have at least one child, a Not has exactly one.
RECURSIVE WellFormed(_)
WellFormed(p) ==
    /\ p.tag \in {FilterAnd, FilterOr} => Len(p.children) >= 1
    /\ p.tag = FilterNot => Len(p.children) = 1
    /\ p.tag \in {FilterAnd, FilterOr, FilterNot} =>
           \A i \in DOMAIN p.children : WellFormed(p.children[i])

\* C31: every tree CompileFilter returns without an error has at least one
\* child in each And and Or node and exactly one child in each Not node.
C31_CompiledTreeWellFormed ==
    fpc = "compiled" /\ filter \in Degenerate => WellFormed(packet)

\* The tree p has a node DecompileFilter cannot print: a Not with no child,
\* an And or an Or with no children, an assertion with fewer than two
\* children, a Substrings with no segment, or a node with an unknown tag.
RECURSIVE Malformed(_)
Malformed(p) ==
    \/ p.tag \in {FilterAnd, FilterOr, FilterNot} /\ p.children = << >>
    \/ /\ p.tag \in {FilterAnd, FilterOr, FilterNot}
       /\ \E i \in DOMAIN p.children : Malformed(p.children[i])
    \/ /\ p.tag \in {FilterEqualityMatch, FilterGreaterOrEqual, FilterLessOrEqual,
                      FilterApproxMatch}
       /\ Len(p.children) < 2
    \/ /\ p.tag = FilterSubstrings
       /\ (Len(p.children) < 2 \/ p.children[2].children = << >>)
    \/ p.tag \notin FilterAnd..FilterExtensibleMatch

\* C32: DecompileFilter returns a filter-decompile error for every malformed
\* tree (it never crashes: a panic is recovered into that error).
C32_MalformedTreeIsError ==
    fpc = "decompiled" /\ Malformed(packet) => decompiled.err

\* C33: the Control that DecodeControl returns for the encoding of a control
\* has the criticality of that control, whatever its type.
C33_CriticalityCarried ==
    cpc \in {"decoded", "reencoded"} => cresult.Criticality = ctl.Criticality

\* C34: a Connect with IsTLS set returns, and then the reader and the
\* dispatcher are running.
C34_ConnectTLSReturns ==
    [](kind[1] = "starttls" =>
           <>(pc[1] \in {"idle", "done"} /\ dpc # "off" /\ rpc # "off"))

\* C35: once processMessages has left its loop (it took a Quit message or a
\* write failed) it gets the close lock and completes closeAllChannels,
\* unless a goroutine has panicked in between.
C35_ShutdownCompletes ==
    [](dpc \in {"quit", "lock"} => <>(dpc = "done" \/ panicked))

\* C36: no delivery goroutine is sending, or about to send, on a result
\* channel that closeAllChannels has closed.
C36_NoSendOnClosedChannel == \A d \in deliv : d.ch \notin chanClosed

\* C37: a caller to whom sendMessage has returned a channel and who still
\* waits on it when the connection has been closed (closeAllChannels has
\* returned) eventually stops waiting, unless a goroutine has panicked.
C37_WaitEndsAfterClose ==
    \A c \in Ops :
        [](pc[c] = "wait" /\ dpc = "done" => <>(pc[c] # "wait" \/ panicked))

\* C38: the delivery goroutine of every frame eventually completes its send
\* (unless a goroutine has panicked).
C38_DeliveryCompletes ==
    \A n \in 1..MaxFrames :
        []((\E d \in deliv : d.seq = n)
              => <>((\A d \in deliv : d.seq # n) \/ panicked))

\* processMessages receives the Finish message carried by goroutine p in
\* this step.
FinishHandled(p) ==
    /\ p \in Held
    /\ p.m.op = MessageFinish
    /\ dpc = "select"
    /\ CopiesIn(p, procs') < CopiesIn(p, procs)

\* A Request message with message ID id has not reached processMessages.
RequestPending(id) ==
    \E q \in BagToSet(procs) : q.m.op = MessageRequest /\ q.m.id = id

\* C39: when processMessages handles the Finish message of a message ID, it
\* has handled the Request message of that ID before: none is still on its
\* way.
C39_RequestBeforeFinish ==
    [][\A p \in BagToSet(procs) : FinishHandled(p) => ~RequestPending(p.m.id)]_vars

\* C40: no Request message with message ID 0 is handed to processMessages.
C40_NoRequestWithIDZero ==
    \A p \in BagToSet(procs) : p.m.op = MessageRequest => p.m.id # 0
====
